---- MODULE Spec2Model ----
(***************************************************************************)
(* synapse-memory: the SQLite store (schema migrations), the session       *)
(* lifecycle tools (session_start, session_end), record_event, knowledge   *)
(* promotion with duplicate detection, recall and relevance ranking.       *)
(*                                                                         *)
(* Timestamps are ISO-8601 strings in the code; they are compared only for *)
(* order, so they are modelled as integers.  Identifiers are UUIDs in the  *)
(* code; a session's identifier is its row number in the sessions table,   *)
(* an event's identifier its row number in session_events, a knowledge     *)
(* item's identifier its row number in promoted_knowledge; 0 stands for a  *)
(* NULL reference.  Text that the code inspects character by character     *)
(* (titles, contents) is a sequence of one-character strings.              *)
(***************************************************************************)
EXTENDS Integers, Sequences, FiniteSets, TLC

(* ------------------------------ bounds -------------------------------- *)

MaxSessions == 2
MaxEvents == 1
MaxTime == 2
StoreMaxSessions == 1
StoreMaxEvents == 1
EventsMaxSessions == 1
SessionsMaxSessions == 3
EventsMaxEvents == 1
KnowledgeMaxItems == 2
RankMaxItems == 2
RankMaxUsage == 1
SurfaceMaxItems == 2
SurfaceMaxSessions == 1
SurfaceMaxRecalled == 1
NormMaxLen == 3
ValueMaxCount == 2
ValueMaxTotal == 3
RecentMaxSessions == 2
DupMaxItems == 2
SupersedeMaxItems == 2
SupersedeMaxSessions == 1
MetricsMaxSessions == 1
MetricsMaxEvents == 2
ImportanceMaxAccesses == 5
UsageMaxSessions == 1
UsageMaxItems == 2
UsageMaxRecalled == 2

Projects == {"/p1", "/p2"}
OneProject == {"/p1"}

\* Days between two clock readings: all within a day (Recent), or up
\* to two months apart
Recent == {0}
TickDays == {0, 1, 7, 30}

\* session_start arguments (branch, gitCommit; "<null>" = omitted) and what
\* the git probe answers (gitBranch, gitHead)
StartInputs ==
    {[branch |-> "main", gitCommit |-> "<null>", gitBranch |-> "unknown", gitHead |-> "<null>"],
     [branch |-> "<null>", gitCommit |-> "<null>", gitBranch |-> "main", gitHead |-> "<null>"]}

\* record_event arguments used with the session lifecycle
LifecycleCallerTypes == {"decision"}
LifecycleDetails ==
    {[type |-> "decision", operation |-> "-", path |-> "-"]}

(* ----------------------------- constants ------------------------------ *)

CURRENT_SCHEMA_VERSION == 3

\* The keys of the MIGRATIONS table of the build.
MIGRATIONS == 1..CURRENT_SCHEMA_VERSION

NoText == "<null>"
\* ended_at IS NULL
NoTime == -1

VARIABLES
    migrationTable, \* keys present in the MIGRATIONS table of the running build
    versionLog,     \* rows of schema_version, in insertion order
    schema,         \* migrations whose DDL is in effect in the store
    execLog,        \* versions whose SQL the last runMigrations call executed
    dbOpen,         \* createDatabase returned a handle
    sessions,       \* rows of the sessions table; session id = index
    events,         \* rows of session_events; event id = index
    valueSessions,  \* value_metrics.total_sessions per project path
    agentSessions,  \* agents.total_sessions of the resolved agent type
    knowledge,      \* rows of promoted_knowledge; knowledge id = index
    knowledgeUsage, \* rows of knowledge_usage, in insertion order
    valueCounters,  \* the row of value_metrics per project path (but total_sessions)
    fileImportance, \* rows of file_importance
    last            \* the last call, its result and what it returned

vars == <<migrationTable, versionLog, schema, execLog, dbOpen, sessions,
          events, valueSessions, agentSessions, knowledge, knowledgeUsage,
          valueCounters, fileImportance, last>>

knowledgeVars == <<knowledge, knowledgeUsage, valueCounters, fileImportance>>

dataVars == <<sessions, events, valueSessions, agentSessions, knowledgeVars>>

Range(s) == {s[i] : i \in 1..Len(s)}

MaxOf(S) == CHOOSE x \in S : \A y \in S : y <= x

\* What a call returned besides its result: the recent sessions, knowledge
\* items, files and events it listed, the duplicate candidate it reported,
\* the knowledge count it reported
NoOut == [recent |-> <<>>, knowledge |-> <<>>, files |-> <<>>, events |-> <<>>,
          dup |-> <<>>, count |-> 0]

(* ------------------------- schema manager ----------------------------- *)

\* getSchemaVersion: SELECT version ... ORDER BY version DESC LIMIT 1, 0 if none
getSchemaVersionZero(log) == 0

getSchemaVersion(log) ==
    IF log = <<>> THEN 0 ELSE MaxOf(Range(log))

\* db.exec(MIGRATIONS[v]) throws: an injected storage failure (failAt), or
\* migration 3's unguarded ALTER TABLE ... ADD COLUMN when the column exists
\* already or the table it alters (created by 1 and 2) does not exist.
\* Migrations 1 and 2 only CREATE ... IF NOT EXISTS.
ExecThrows(v, sch, failAt) ==
    \/ v = failAt
    \/ v = 3 /\ (3 \in sch \/ 1 \notin sch \/ 2 \notin sch)

\* One iteration of the loop of runMigrations on the transaction state st =
\* [log, schema, exec, error].
MigrateStepSkipMissing(v, table, st, failAt) ==
    IF v \notin table
    THEN st
    ELSE IF ExecThrows(v, st.schema, failAt)
         THEN [st EXCEPT !.exec = Append(@, v), !.error = "exec"]
         ELSE IF v \in Range(st.log)
              THEN [st EXCEPT !.exec = Append(@, v), !.schema = @ \cup {v},
                              !.error = "constraint"]
              ELSE [st EXCEPT !.exec = Append(@, v), !.schema = @ \cup {v},
                              !.log = Append(@, v)]

MigrateStep(v, table, st, failAt) ==
    IF v \notin table
    THEN [st EXCEPT !.error = "missing"]
    ELSE IF ExecThrows(v, st.schema, failAt)
         THEN [st EXCEPT !.exec = Append(@, v), !.error = "exec"]
         ELSE IF v \in Range(st.log)
              THEN [st EXCEPT !.exec = Append(@, v), !.schema = @ \cup {v},
                              !.error = "constraint"]
              ELSE [st EXCEPT !.exec = Append(@, v), !.schema = @ \cup {v},
                              !.log = Append(@, v)]

\* for (let v = currentVersion + 1; v <= CURRENT_SCHEMA_VERSION; v++)
RECURSIVE MigrateLoop(_, _, _, _)
MigrateLoop(v, table, st, failAt) ==
    IF v > CURRENT_SCHEMA_VERSION \/ st.error # "none"
    THEN st
    ELSE MigrateLoop(v + 1, table, MigrateStep(v, table, st, failAt), failAt)

FirstMigrationSkipOne(currentVersion) == currentVersion + 2

FirstMigration(currentVersion) == currentVersion + 1

\* db.transaction(fn)(): commit what fn did, or roll all of it back and rethrow
Transaction(pre, post) ==
    IF post.error = "none"
    THEN post
    ELSE [post EXCEPT !.log = pre.log, !.schema = pre.schema]

\* runMigrations: the whole loop runs inside one transaction
runMigrations(log, sch, table, failAt) ==
    LET pre == [log |-> log, schema |-> sch, exec |-> <<>>, error |-> "none"]
    IN Transaction(pre,
           MigrateLoop(FirstMigration(getSchemaVersion(log)), table, pre, failAt))

\* createDatabase(path): open the store and migrate it; throws if runMigrations does
CreateDatabase(failAt) ==
    LET r == runMigrations(versionLog, schema, migrationTable, failAt)
    IN /\ versionLog' = r.log
       /\ schema' = r.schema
       /\ execLog' = r.exec
       /\ dbOpen' = (r.error = "none")
       /\ last' = [op |-> "open", arg |-> Len(versionLog),
                   res |-> r.error, input |-> failAt, out |-> NoOut]
       /\ UNCHANGED migrationTable
       /\ UNCHANGED dataVars

(* ----------------------------- utils.ts ------------------------------- *)

EventTypes == {"file_read", "file_write", "file_edit", "tool_call",
               "decision", "pattern", "error_resolved", "milestone"}

\* EventDetail: the tagged union, keyed by detail.type
Details ==
    [type : {"file_op"}, operation : {"read", "write", "edit"}, path : {"src/a.ts"}]
    \cup [type : {"tool_call", "decision", "pattern", "error_resolved", "milestone"},
          operation : {"-"}, path : {"-"}]

categorizeEvent(eventType) ==
    CASE eventType = "file_read" -> "read"
      [] eventType \in {"file_write", "file_edit"} -> "edit"
      [] eventType = "tool_call" -> "execute"
      [] eventType \in {"decision", "pattern", "error_resolved", "milestone"} -> "other"

deriveEventType(detail) ==
    CASE detail.type = "file_op" ->
             IF detail.operation = "read" THEN "file_read"
             ELSE IF detail.operation = "write" THEN "file_write"
             ELSE "file_edit"
      [] detail.type = "tool_call" -> "tool_call"
      [] detail.type = "decision" -> "decision"
      [] detail.type = "pattern" -> "pattern"
      [] detail.type = "error_resolved" -> "error_resolved"
      [] detail.type = "milestone" -> "milestone"

(* ----------------------- context/deduplication.ts --------------------- *)

UpperCase == <<"A", "B", "C", "D", "E", "F", "G", "H", "I", "J", "K", "L", "M",
               "N", "O", "P", "Q", "R", "S", "T", "U", "V", "W", "X", "Y", "Z">>
LowerCase == <<"a", "b", "c", "d", "e", "f", "g", "h", "i", "j", "k", "l", "m",
               "n", "o", "p", "q", "r", "s", "t", "u", "v", "w", "x", "y", "z">>

\* String.prototype.toLowerCase on one character
toLowerCase(c) ==
    IF \E i \in 1..Len(UpperCase) : UpperCase[i] = c
    THEN LowerCase[CHOOSE i \in 1..Len(UpperCase) : UpperCase[i] = c]
    ELSE c

\* Characters that \s matches
WhiteSpace == {" ", "\t", "\n"}

MinOf(S) == CHOOSE x \in S : \A y \in S : x <= y

\* .replace(/\s+/g, ' '): every maximal run of whitespace becomes one space
RECURSIVE CollapseWhitespace(_, _, _)
CollapseWhitespace(s, i, acc) ==
    IF i > Len(s) THEN acc
    ELSE IF s[i] \in WhiteSpace
         THEN IF i > 1 /\ s[i - 1] \in WhiteSpace
              THEN CollapseWhitespace(s, i + 1, acc)
              ELSE CollapseWhitespace(s, i + 1, Append(acc, " "))
         ELSE CollapseWhitespace(s, i + 1, Append(acc, s[i]))

\* .trim()
trim(s) ==
    LET solid == {i \in 1..Len(s) : s[i] \notin WhiteSpace}
    IN IF solid = {} THEN <<>> ELSE SubSeq(s, MinOf(solid), MaxOf(solid))

normalizeContentKeepCase(content) ==
    trim(CollapseWhitespace(content, 1, <<>>))

normalizeContent(content) ==
    trim(CollapseWhitespace([i \in 1..Len(content) |-> toLowerCase(content[i])],
                            1, <<>>))

\* The digest of the content as given
computeContentHashRaw(content) == content

\* computeContentHash: the SHA-256 digest of the normalized content.  The
\* digest is taken as collision-free, so it is represented by the text it
\* digests: two hashes are equal exactly when the normalized texts are.
computeContentHash(content) == normalizeContent(content)

Min3(x, y, z) ==
    IF x <= y /\ x <= z THEN x ELSE IF y <= z THEN y ELSE z

\* Row i of the matrix of levenshteinDistance, built from row i - 1 (prev)
\* and the i-th character c of b.  A row is a sequence whose element j + 1
\* is matrix[i][j]; acc holds the part of row i computed so far.
RECURSIVE LevRow(_, _, _, _)
LevRow(prev, a, c, acc) ==
    IF Len(acc) > Len(a) THEN acc
    ELSE LET j == Len(acc)
         IN CHOOSE row \in
                {LevRow(prev, a, c, next) :
                    next \in {Append(acc, IF c = a[j]
                                          THEN prev[j]
                                          ELSE Min3(prev[j] + 1, acc[j] + 1,
                                                    prev[j + 1] + 1))}} : TRUE

RECURSIVE LevRows(_, _, _, _)
LevRows(a, b, i, prev) ==
    IF i > Len(b) THEN prev
    ELSE CHOOSE final \in
             {LevRows(a, b, i + 1, row) : row \in {LevRow(prev, a, b[i], <<i>>)}} : TRUE

levenshteinDistance(a, b) ==
    LevRows(a, b, 1, [j \in 1..(Len(a) + 1) |-> j - 1])[Len(a) + 1]

\* A similarity score is the fraction num / den (1.0 is 1 / 1)
One == [num |-> 1, den |-> 1]

\* computeTitleSimilarity: 1 - distance / maxLen on the normalized titles
computeTitleSimilarity(title1, title2) ==
    LET normalized1 == normalizeContent(title1)
        normalized2 == normalizeContent(title2)
        maxLen == IF Len(normalized1) >= Len(normalized2)
                  THEN Len(normalized1) ELSE Len(normalized2)
    IN IF normalized1 = normalized2 THEN One
       ELSE IF maxLen = 0 THEN One
       ELSE [num |-> maxLen - levenshteinDistance(normalized1, normalized2),
             den |-> maxLen]

\* x >= y on similarity scores
SimGeq(x, y) == x.num * y.den >= y.num * x.den

\* The threshold of findDuplicates, 0.85
TitleThreshold == [num |-> 85, den |-> 100]

\* The orders in which a query without a deciding ORDER BY may return the rows S
Perms(S) ==
    {f \in [1..Cardinality(S) -> S] :
        \A i, j \in 1..Cardinality(S) : f[i] = f[j] => i = j}

\* Array.prototype.sort((a, b) => b.score - a.score): a stable sort into
\* descending order.  Element i lands behind every element with a higher
\* score and behind the earlier elements of its own score.
\* geq[i][j]: the comparator does not put s[j] before s[i].
sortDescending(s, geq) ==
    LET pos(i) == Cardinality({j \in 1..Len(s) : ~geq[i][j]})
                  + Cardinality({j \in 1..i : geq[i][j] /\ geq[j][i]})
    IN [p \in 1..Len(s) |-> s[CHOOSE i \in 1..Len(s) : pos(i) = p]]

\* The comparator (a, b) => b.score - a.score on the scores of a list
ByScore(scores) ==
    [i \in 1..Len(scores) |-> [j \in 1..Len(scores) |-> scores[i] >= scores[j]]]

\* The rows the exact-hash query of findDuplicates matches
exactMatches(kn, projectPath, contentHash) ==
    {i \in 1..Len(kn) :
        /\ kn[i].projectPath = projectPath
        /\ kn[i].contentHash = contentHash
        /\ kn[i].supersededBy = 0}

\* The current rows of every project
titleCandidatesAnyProject(kn, projectPath) ==
    {i \in 1..Len(kn) : kn[i].supersededBy = 0}

\* The title query with its superseded_by test inverted
titleCandidatesSuperseded(kn, projectPath) ==
    {i \in 1..Len(kn) : kn[i].projectPath = projectPath /\ kn[i].supersededBy # 0}

\* The rows the title query of findDuplicates reads
titleCandidates(kn, projectPath) ==
    {i \in 1..Len(kn) : kn[i].projectPath = projectPath /\ kn[i].supersededBy = 0}

\* The title candidates of findDuplicates in one of the orders the title
\* query may return them; similarity[i] is the title similarity of row i
titleMatches(similarity) ==
    {[n \in 1..Len(order) |->
         [existingKnowledge |-> order[n], similarityScore |-> similarity[order[n]],
          matchType |-> "title_match"]] :
     order \in Perms({i \in DOMAIN similarity : SimGeq(similarity[i], TitleThreshold)})}

\* findDuplicates reporting every row of the digest
findDuplicatesAllExact(kn, projectPath, title, content) ==
    LET exact == exactMatches(kn, projectPath, computeContentHash(content))
    IN IF exact # {}
       THEN {[n \in 1..Len(order) |->
                 [existingKnowledge |-> order[n], similarityScore |-> One,
                  matchType |-> "exact_hash"]] : order \in Perms(exact)}
       ELSE UNION {{sortDescending(duplicates,
                        [i \in 1..Len(duplicates) |-> [j \in 1..Len(duplicates) |->
                            SimGeq(duplicates[i].similarityScore,
                                   duplicates[j].similarityScore)]]) :
                    duplicates \in titleMatches(similarity)} :
                similarity \in {[i \in titleCandidates(kn, projectPath) |->
                                    computeTitleSimilarity(title, kn[i].title)]}}

\* findDuplicates without the sort of the title candidates
findDuplicatesUnsorted(kn, projectPath, title, content) ==
    LET exact == exactMatches(kn, projectPath, computeContentHash(content))
    IN IF exact # {}
       THEN {<<[existingKnowledge |-> i, similarityScore |-> One,
                matchType |-> "exact_hash"]>> : i \in exact}
       ELSE UNION {titleMatches(similarity) :
                similarity \in {[i \in titleCandidates(kn, projectPath) |->
                                    computeTitleSimilarity(title, kn[i].title)]}}

\* findDuplicates: the candidate lists the call may return (db.get returns
\* one of the rows that match; the title query has no ORDER BY)
findDuplicates(kn, projectPath, title, content) ==
    LET exact == exactMatches(kn, projectPath, computeContentHash(content))
    IN IF exact # {}
       THEN {<<[existingKnowledge |-> i, similarityScore |-> One,
                matchType |-> "exact_hash"]>> : i \in exact}
       ELSE UNION {{sortDescending(duplicates,
                        [i \in 1..Len(duplicates) |-> [j \in 1..Len(duplicates) |->
                            SimGeq(duplicates[i].similarityScore,
                                   duplicates[j].similarityScore)]]) :
                    duplicates \in titleMatches(similarity)} :
                similarity \in {[i \in titleCandidates(kn, projectPath) |->
                                    computeTitleSimilarity(title, kn[i].title)]}}

\* A supersession that also re-parents the items the old item had superseded
markSupersededCascading(kn, oldKnowledgeId, newKnowledgeId) ==
    [i \in 1..Len(kn) |->
        IF i = oldKnowledgeId \/ kn[i].supersededBy = oldKnowledgeId
        THEN [kn[i] EXCEPT !.supersededBy = newKnowledgeId]
        ELSE kn[i]]

\* markSuperseded: UPDATE promoted_knowledge SET superseded_by = ? WHERE knowledge_id = ?
markSuperseded(kn, oldKnowledgeId, newKnowledgeId) ==
    [i \in 1..Len(kn) |->
        IF i = oldKnowledgeId
        THEN [kn[i] EXCEPT !.supersededBy = newKnowledgeId]
        ELSE kn[i]]

(* ------------------------- storage/sessions.ts ------------------------ *)

\* createSession: INSERT INTO sessions; ended_at, summary, git_commit_end NULL
createSession(ss, session) ==
    Append(ss, [projectPath |-> session.projectPath,
                branch |-> session.branch,
                startedAt |-> session.startedAt,
                endedAt |-> NoTime,
                status |-> session.status,
                summary |-> NoText,
                gitCommitStart |-> session.gitCommitStart,
                gitCommitEnd |-> NoText,
                agentType |-> session.agentType])

\* The rows the UPDATE of endSession matches
endSessionMatchesAnyStatus(ss, sessionId) ==
    {i \in 1..Len(ss) : i = sessionId}

endSessionMatches(ss, sessionId) ==
    {i \in 1..Len(ss) : i = sessionId /\ ss[i].status = "active"}

\* endSession: the table after the UPDATE
endSession(ss, sessionId, endedAt, summary, gitCommitEnd) ==
    [i \in 1..Len(ss) |->
        IF i \in endSessionMatches(ss, sessionId)
        THEN [ss[i] EXCEPT !.endedAt = endedAt, !.status = "completed",
                           !.summary = summary, !.gitCommitEnd = gitCommitEnd]
        ELSE ss[i]]

\* The rows the UPDATE of abandonStaleSessions matches
abandonMatchesNone(ss, projectPath) == {}

\* The active rows of every project
abandonMatchesAnyProject(ss, projectPath) ==
    {i \in 1..Len(ss) : ss[i].status = "active"}

abandonMatches(ss, projectPath) ==
    {i \in 1..Len(ss) :
        ss[i].projectPath = projectPath /\ ss[i].status = "active"}

\* abandonStaleSessions: the table after the UPDATE
abandonStaleSessionsKeepEndedAt(ss, projectPath, endedAt) ==
    [i \in 1..Len(ss) |->
        IF i \in abandonMatches(ss, projectPath)
        THEN [ss[i] EXCEPT !.status = "abandoned"]
        ELSE ss[i]]

abandonStaleSessions(ss, projectPath, endedAt) ==
    [i \in 1..Len(ss) |->
        IF i \in abandonMatches(ss, projectPath)
        THEN [ss[i] EXCEPT !.endedAt = endedAt, !.status = "abandoned"]
        ELSE ss[i]]

\* getSession: the row of that id, if any
hasSession(ss, sessionId) == sessionId \in 1..Len(ss)

\* getActiveSession: ... WHERE project_path = ? AND status = 'active'
\* ORDER BY started_at DESC LIMIT 1.  The ids the query may return (rows that
\* tie on started_at come back in an order SQLite does not fix); {} = undefined.
getActiveSession(ss, projectPath) ==
    LET act == {i \in 1..Len(ss) :
                   ss[i].projectPath = projectPath /\ ss[i].status = "active"}
    IN {i \in act : \A j \in act : ss[j].startedAt <= ss[i].startedAt}

\* The rows the query of getRecentSessions matches (branch NoText: no
\* branch filter)
recentSessionsMatchAnyStatus(ss, projectPath, branch) ==
    {i \in 1..Len(ss) :
        /\ ss[i].projectPath = projectPath
        /\ branch # NoText => ss[i].branch = branch}

recentSessionsMatch(ss, projectPath, branch) ==
    {i \in 1..Len(ss) :
        /\ ss[i].projectPath = projectPath
        /\ branch # NoText => ss[i].branch = branch
        /\ ss[i].status = "completed"}

\* The rows S of ss by started_at, latest first, all of them
LatestStartedUncut(ss, S, limit) ==
    {order \in [1..Cardinality(S) -> S] :
        /\ \A i, j \in 1..Cardinality(S) : order[i] = order[j] => i = j
        /\ \A i, j \in 1..Cardinality(S) :
              i < j => ss[order[i]].startedAt >= ss[order[j]].startedAt}

\* The orders an ORDER BY started_at DESC may give the rows S of ss, cut
\* to the limit
LatestStarted(ss, S, limit) ==
    {SubSeq(order, 1, IF Len(order) < limit THEN Len(order) ELSE limit) :
        order \in {o \in [1..Cardinality(S) -> S] :
                      /\ \A i, j \in 1..Cardinality(S) : o[i] = o[j] => i = j
                      /\ \A i, j \in 1..Cardinality(S) :
                            i < j => ss[o[i]].startedAt >= ss[o[j]].startedAt}}

\* getRecentSessions: the id lists the query may return
getRecentSessions(ss, projectPath, limit, branch) ==
    LatestStarted(ss, recentSessionsMatch(ss, projectPath, branch), limit)

\* The summaries the callers of session_end give, character by character
Characters(text) ==
    IF text = "First" THEN <<"F", "i", "r", "s", "t">> ELSE <<>>

\* summary LIKE '%query%' (LIKE ignores the case of ASCII letters; NULL
\* matches nothing)
summaryLike(summary, query) ==
    /\ summary # NoText
    /\ LET text == [i \in 1..Len(Characters(summary)) |-> toLowerCase(Characters(summary)[i])]
           sought == [i \in 1..Len(query) |-> toLowerCase(query[i])]
       IN \E i \in 1..(Len(text) - Len(sought) + 1) :
              SubSeq(text, i, i + Len(sought) - 1) = sought

\* searchSessions: with a query every session whose summary contains it,
\* else getRecentSessions (query <<>>: no query)
searchSessions(ss, projectPath, query, branch, limit) ==
    IF query # <<>>
    THEN LatestStarted(ss, {i \in 1..Len(ss) :
                               /\ ss[i].projectPath = projectPath
                               /\ branch # NoText => ss[i].branch = branch
                               /\ summaryLike(ss[i].summary, query)}, limit)
    ELSE getRecentSessions(ss, projectPath, limit, branch)

(* -------------------------- storage/events.ts ------------------------- *)

insertEvent(es, event) == Append(es, event)

\* getSessionEvents(db, sessionId, eventType): the ids of those events
getSessionEvents(es, sessionId, eventType) ==
    {k \in 1..Len(es) : es[k].sessionId = sessionId /\ es[k].eventType = eventType}

\* getRecentEvents(db, projectPath, eventType, limit): the id lists the
\* query (ORDER BY e.timestamp DESC LIMIT ?) may return
getRecentEvents(es, ss, projectPath, eventType, limit) ==
    LET S == {k \in 1..Len(es) :
                 /\ ss[es[k].sessionId].projectPath = projectPath
                 /\ es[k].eventType = eventType}
    IN {SubSeq(order, 1, IF Len(order) < limit THEN Len(order) ELSE limit) :
           order \in {o \in [1..Cardinality(S) -> S] :
                         /\ \A i, j \in 1..Cardinality(S) : o[i] = o[j] => i = j
                         /\ \A i, j \in 1..Cardinality(S) :
                               i < j => es[o[i]].timestamp >= es[o[j]].timestamp}}

(* ------------------------- storage/knowledge.ts ----------------------- *)

\* insertKnowledge: INSERT INTO promoted_knowledge; synced_at and
\* superseded_by are not among the inserted columns and stay NULL
insertKnowledge(kn, k) ==
    Append(kn, [projectPath |-> k.projectPath,
                sessionId |-> k.sessionId,
                title |-> k.title,
                content |-> k.content,
                knowledgeType |-> k.knowledgeType,
                createdAt |-> k.createdAt,
                syncedAt |-> NoTime,
                branch |-> k.branch,
                contentHash |-> k.contentHash,
                usageCount |-> k.usageCount,
                supersededBy |-> 0])

\* The first limit elements (LIMIT ?, slice(0, limit))
Limit(s, limit) == SubSeq(s, 1, IF Len(s) < limit THEN Len(s) ELSE limit)

\* The orders an ORDER BY created_at DESC may give the rows S of kn
NewestFirst(kn, S) ==
    {order \in Perms(S) :
        \A i, j \in 1..Len(order) :
            i < j => kn[order[i]].createdAt >= kn[order[j]].createdAt}

\* The rows the query of getProjectKnowledge matches (knowledgeType NoText:
\* no type filter)
projectKnowledgeMatchesSuperseded(kn, projectPath, knowledgeType) ==
    {i \in 1..Len(kn) :
        /\ kn[i].projectPath = projectPath
        /\ knowledgeType # NoText => kn[i].knowledgeType = knowledgeType}

projectKnowledgeMatches(kn, projectPath, knowledgeType) ==
    {i \in 1..Len(kn) :
        /\ kn[i].projectPath = projectPath
        /\ knowledgeType # NoText => kn[i].knowledgeType = knowledgeType
        /\ kn[i].supersededBy = 0}

\* getProjectKnowledge: the id lists the query may return
getProjectKnowledge(kn, projectPath, knowledgeType, limit) ==
    {Limit(order, limit) :
        order \in NewestFirst(kn, projectKnowledgeMatches(kn, projectPath, knowledgeType))}

\* getUnsyncedKnowledge: ... synced_at IS NULL AND superseded_by IS NULL
\* ORDER BY created_at ASC
getUnsyncedKnowledge(kn, projectPath) ==
    LET S == {i \in 1..Len(kn) :
                 /\ kn[i].projectPath = projectPath
                 /\ kn[i].syncedAt = NoTime
                 /\ kn[i].supersededBy = 0}
    IN {order \in Perms(S) :
           \A i, j \in 1..Len(order) :
               i < j => kn[order[i]].createdAt <= kn[order[j]].createdAt}

\* getKnowledgeCount: the rows counted in total, and per type
countedKnowledge(kn, projectPath) ==
    {i \in 1..Len(kn) : kn[i].projectPath = projectPath /\ kn[i].supersededBy = 0}

getKnowledgeCount(kn, projectPath) ==
    [total |-> Cardinality(countedKnowledge(kn, projectPath)),
     byType |-> [ty \in {"decision", "pattern", "error_resolved", "milestone"} |->
                    Cardinality({i \in countedKnowledge(kn, projectPath) :
                                    kn[i].knowledgeType = ty})]]

(* ---------------------- storage/knowledge-usage.ts -------------------- *)

\* The UPDATE without its WHERE knowledge_id = ?
incrementUsageCountOfAll(kn, knowledgeId) ==
    [i \in 1..Len(kn) |-> [kn[i] EXCEPT !.usageCount = @ + 1]]

\* incrementUsageCount: UPDATE ... SET usage_count = usage_count + 1
incrementUsageCount(kn, knowledgeId) ==
    [i \in 1..Len(kn) |->
        IF i = knowledgeId THEN [kn[i] EXCEPT !.usageCount = @ + 1] ELSE kn[i]]

\* recordKnowledgeUsage on the tables st = [knowledge, usage]: the INSERT of
\* one knowledge_usage row, then incrementUsageCount, each statement
\* committed on its own.  throws: the UPDATE of incrementUsageCount raises a
\* storage exception, so the row is written and the count is not.
recordKnowledgeUsage(st, knowledgeId, sessionId, usageType, throws) ==
    LET inserted == Append(st.usage, [knowledgeId |-> knowledgeId,
                                      sessionId |-> sessionId,
                                      usageType |-> usageType])
    IN [knowledge |-> IF throws THEN st.knowledge
                      ELSE incrementUsageCount(st.knowledge, knowledgeId),
        usage |-> inserted]

\* for (const k of ranked) recordKnowledgeUsage(db, k.knowledgeId, sessionId, usageType)
\* failAt: the position in ids at which recordKnowledgeUsage throws, which
\* ends the loop (0: no call throws)
RECURSIVE recordUsageOfAll(_, _, _, _, _, _)
recordUsageOfAll(st, ids, n, sessionId, usageType, failAt) ==
    IF n > Len(ids) THEN st
    ELSE IF n = failAt
    THEN recordKnowledgeUsage(st, ids[n], sessionId, usageType, TRUE)
    ELSE recordUsageOfAll(recordKnowledgeUsage(st, ids[n], sessionId, usageType, FALSE),
                          ids, n + 1, sessionId, usageType, failAt)

(* ----------------------- storage/value-metrics.ts --------------------- *)

\* Seconds saved per kind of use
TIME_SAVINGS ==
    [knowledgeSurface |-> 60, decisionRecall |-> 180,
     patternApplied |-> 300, errorPrevented |-> 900]

\* No value_metrics row (exists = FALSE), and the row the INSERT of
\* ensureValueMetrics creates
NoValueMetrics ==
    [exists |-> FALSE, contextReuseCount |-> 0, knowledgeSurfacedCount |-> 0,
     decisionsRecalledCount |-> 0, patternsAppliedCount |-> 0,
     errorsPreventedCount |-> 0, estimatedTimeSavedSecs |-> 0]

ensureValueMetrics(vc, projectPath) ==
    [vc EXCEPT ![projectPath].exists = TRUE]

\* incrementSessionCount: total_sessions = total_sessions + 1 on the row of
\* the project (ensureValueMetrics creates the row with 0 when it is missing)
incrementSessionCount(vs, projectPath) ==
    [vs EXCEPT ![projectPath] = @ + 1]

incrementContextReuse(vc, projectPath) ==
    [ensureValueMetrics(vc, projectPath) EXCEPT
        ![projectPath].contextReuseCount = @ + 1]

incrementKnowledgeSurfaced(vc, projectPath, count) ==
    [ensureValueMetrics(vc, projectPath) EXCEPT
        ![projectPath].knowledgeSurfacedCount = @ + count,
        ![projectPath].estimatedTimeSavedSecs = @ + count * TIME_SAVINGS.knowledgeSurface]

\* The decision counter raised without the time it saves
incrementDecisionRecallUntimed(vc, projectPath, count) ==
    [ensureValueMetrics(vc, projectPath) EXCEPT
        ![projectPath].decisionsRecalledCount = @ + count]

incrementDecisionRecall(vc, projectPath, count) ==
    [ensureValueMetrics(vc, projectPath) EXCEPT
        ![projectPath].decisionsRecalledCount = @ + count,
        ![projectPath].estimatedTimeSavedSecs = @ + count * TIME_SAVINGS.decisionRecall]

incrementPatternApplied(vc, projectPath, count) ==
    [ensureValueMetrics(vc, projectPath) EXCEPT
        ![projectPath].patternsAppliedCount = @ + count,
        ![projectPath].estimatedTimeSavedSecs = @ + count * TIME_SAVINGS.patternApplied]

incrementErrorPrevented(vc, projectPath, count) ==
    [ensureValueMetrics(vc, projectPath) EXCEPT
        ![projectPath].errorsPreventedCount = @ + count,
        ![projectPath].estimatedTimeSavedSecs = @ + count * TIME_SAVINGS.errorPrevented]

(* ---------------------- storage/file-importance.ts -------------------- *)

\* getImportantFiles: the rows of the project (file paths), best score first
getImportantFiles(fi, projectPath, limit) ==
    LET S == {r \in fi : r.projectPath = projectPath}
    IN {Limit([n \in 1..Len(order) |-> order[n].filePath], limit) :
           order \in {o \in Perms(S) :
                         \A i, j \in 1..Len(o) :
                             i < j => o[i].importanceScore >= o[j].importanceScore}}

(* --------------------------- context/scoring.ts ----------------------- *)

\* Weights are held in tenths (1.0 is 10).
\* The branch weight with the trunk names tested before the equality
computeBranchWeightTrunkFirst(itemBranch, currentBranch) ==
    IF itemBranch \in {NoText, ""} THEN 5
    ELSE IF itemBranch \in {"main", "master"} THEN 7
    ELSE IF itemBranch = currentBranch THEN 10
    ELSE 3

\* computeBranchWeight: no branch (undefined or the empty string, !itemBranch)
\* 0.5, same branch 1.0, main / master 0.7, other 0.3
computeBranchWeight(itemBranch, currentBranch) ==
    IF itemBranch \in {NoText, ""} THEN 5
    ELSE IF itemBranch = currentBranch THEN 10
    ELSE IF itemBranch \in {"main", "master"} THEN 7
    ELSE 3

\* The recency weight with the day limits counted into the younger class
computeRecencyWeightInclusive(daysSince) ==
    IF daysSince <= 1 THEN 10
    ELSE IF daysSince <= 7 THEN 8
    ELSE IF daysSince <= 30 THEN 5
    ELSE 3

\* computeRecencyWeight, from the whole days between createdAt and Date.now()
\* (daysSince < k holds of the quotient exactly when it holds of its floor)
computeRecencyWeight(daysSince) ==
    IF daysSince < 1 THEN 10
    ELSE IF daysSince < 7 THEN 8
    ELSE IF daysSince < 30 THEN 5
    ELSE 3

\* 100000 * ln(n) for n = 1..8, to the nearest integer
LnTable == <<0, 69315, 109861, 138629, 160944, 179176, 194591, 207944>>

\* computeUsageWeight: 1.0 + ln(usageCount + 1) * 0.1, in millionths
computeUsageWeight(usageCount) == 1000000 + LnTable[usageCount + 1]

\* The double sum branchWeight * 0.4 + recencyWeight * 0.4 + ... comes out one
\* unit in the last place higher for 0.5 * 0.4 + 0.5 * 0.4 than for the equal
\* real sum 0.7 * 0.4 + 0.3 * 0.4 when the usage count is 0, 2 or 7
FloatExcess(branchWeight, recencyWeight, usageCount) ==
    IF branchWeight = 5 /\ recencyWeight = 5 /\ usageCount \in {0, 2, 7}
    THEN 1 ELSE 0

\* computeRelevanceScore: branchWeight * 0.4 + recencyWeight * 0.4
\* + (usageWeight - 1.0) * 0.2 + 0.2, in millionths.  days gives the age in
\* days of each creation timestamp.
computeRelevanceScore(k, currentBranch, days) ==
    LET branchWeight == computeBranchWeight(k.branch, currentBranch)
        recencyWeight == computeRecencyWeight(days[k.createdAt])
        usageWeight == computeUsageWeight(k.usageCount)
    IN [knowledge |-> k,
        relevanceScore |-> branchWeight * 40000 + recencyWeight * 40000
                           + (usageWeight - 1000000) \div 5 + 200000
                           + FloatExcess(branchWeight, recencyWeight, k.usageCount),
        branchWeight |-> branchWeight,
        recencyWeight |-> recencyWeight]

rankKnowledgeAscending(items, currentBranch, days) ==
    CHOOSE ranked \in
        {sortDescending(scored, ByScore([n \in 1..Len(items) |-> 0 - scored[n].relevanceScore])) :
         scored \in {[n \in 1..Len(items) |->
                         computeRelevanceScore(items[n], currentBranch, days)]}} : TRUE

rankKnowledge(items, currentBranch, days) ==
    CHOOSE ranked \in
        {sortDescending(scored, ByScore([n \in 1..Len(items) |-> scored[n].relevanceScore])) :
         scored \in {[n \in 1..Len(items) |->
                         computeRelevanceScore(items[n], currentBranch, days)]}} : TRUE

\* scoreSession: branchWeight * 0.5 + recencyWeight * 0.5, in twentieths
scoreSession(session, currentBranch, days) ==
    [session |-> session,
     score |-> computeBranchWeight(session.branch, currentBranch)
               + computeRecencyWeight(days[session.startedAt])]

rankSessions(ss, currentBranch, days) ==
    CHOOSE ranked \in
        {sortDescending(scored, ByScore([n \in 1..Len(ss) |-> scored[n].score])) :
         scored \in {[n \in 1..Len(ss) |-> scoreSession(ss[n], currentBranch, days)]}} : TRUE

(* --------------------------- the tool handlers ------------------------ *)

\* The timestamps stored so far
Stamps ==
    {sessions[i].startedAt : i \in 1..Len(sessions)}
    \cup {sessions[i].endedAt : i \in 1..Len(sessions)}
    \cup {events[k].timestamp : k \in 1..Len(events)}
    \cup {knowledge[k].createdAt : k \in 1..Len(knowledge)}
    \cup {r.lastAccessedAt : r \in fileImportance}

\* nowISO(): what the clock may read in a handler.  Time does not go back,
\* and timestamps are only compared, so a reading is either the latest stored
\* timestamp (the same millisecond) or later than every stored one.
ClockReadings ==
    LET latest == MaxOf(Stamps \cup {0})
    IN IF latest = 0 THEN {1} ELSE {latest, latest + 1} \cap 1..MaxTime

\* The age in whole days that Date.now() gives each timestamp in a call
\* that reads the clock at t, when the clock readings lie tickDays days apart
Ages(t, tickDays) == [stamp \in 1..t |-> (t - stamp) * tickDays]

\* The fields of a session / a knowledge item that the ranking reads
SessionItem(ss, i) ==
    [sessionId |-> i, branch |-> ss[i].branch, startedAt |-> ss[i].startedAt]

KnowledgeItem(kn, i) ==
    [knowledgeId |-> i, branch |-> kn[i].branch, createdAt |-> kn[i].createdAt,
     usageCount |-> kn[i].usageCount]

\* session_start.  branch / gitCommit are the caller's optional arguments,
\* gitBranch / gitHead what the git probe answers.  tickDays: how many days
\* apart the clock readings lie.  failAt: the statement in which a storage
\* exception surfaces ("none": in none).  The handler has no transaction, so
\* what ran before that statement stays written: "upsertAgent" after
\* abandonStaleSessions, "incrementSessionCount" after createSession,
\* "recordKnowledgeUsage" in the UPDATE of the usage count of one of the
\* surfaced items (when nothing is surfaced the statement is not reached).
SessionStart(projectPath, branch, gitCommit, gitBranch, gitHead, t, failAt, tickDays) ==
    /\ dbOpen
    /\ t \in ClockReadings
    /\ LET abandoned == abandonStaleSessions(sessions, projectPath, t)
           resolvedBranch == IF branch # NoText THEN branch ELSE gitBranch
           resolvedCommit == IF gitCommit # NoText THEN gitCommit ELSE gitHead
           session == [projectPath |-> projectPath,
                       branch |-> resolvedBranch,
                       startedAt |-> t,
                       status |-> "active",
                       gitCommitStart |-> resolvedCommit,
                       agentType |-> "unknown"]
           created == createSession(abandoned, session)
           sessionId == Len(created)
           days == Ages(t, tickDays)
       IN IF failAt = "upsertAgent"
          THEN /\ sessions' = abandoned
               /\ UNCHANGED <<valueSessions, agentSessions, knowledgeVars>>
               /\ last' = [op |-> "session_start", arg |-> projectPath,
                           res |-> "error", input |-> 0, out |-> NoOut]
          ELSE IF failAt = "incrementSessionCount"
          THEN /\ agentSessions' = agentSessions + 1
               /\ sessions' = created
               /\ UNCHANGED <<valueSessions, knowledgeVars>>
               /\ last' = [op |-> "session_start", arg |-> projectPath,
                           res |-> "error", input |-> 0, out |-> NoOut]
          ELSE \E recentSessions \in getRecentSessions(created, projectPath, 10, NoText),
                  items \in getProjectKnowledge(knowledge, projectPath, NoText, 30),
                  importantFiles \in getImportantFiles(fileImportance, projectPath, 10) :
               \E rankedSessions \in
                       {Limit(rankSessions([n \in 1..Len(recentSessions) |->
                                               SessionItem(created, recentSessions[n])],
                                           resolvedBranch, days), 5)},
                  rankedKnowledge \in
                       {Limit(rankKnowledge([n \in 1..Len(items) |->
                                                KnowledgeItem(knowledge, items[n])],
                                            resolvedBranch, days), 15)} :
               \E failing \in (IF failAt = "recordKnowledgeUsage"
                                   /\ Len(rankedKnowledge) > 0
                                THEN 1..Len(rankedKnowledge) ELSE {0}) :
               LET surfaced == [n \in 1..Len(rankedKnowledge) |->
                                   rankedKnowledge[n].knowledge.knowledgeId]
                   used == recordUsageOfAll([knowledge |-> knowledge, usage |-> knowledgeUsage],
                                            surfaced, 1, sessionId, "surfaced", failing)
                   counted == ensureValueMetrics(valueCounters, projectPath)
                   reused == IF Len(rankedSessions) > 0
                             THEN incrementContextReuse(counted, projectPath)
                             ELSE counted
               IN /\ agentSessions' = agentSessions + 1
                  /\ sessions' = created
                  /\ valueSessions' = incrementSessionCount(valueSessions, projectPath)
                  /\ valueCounters' =
                        IF Len(rankedKnowledge) > 0
                        THEN incrementKnowledgeSurfaced(reused, projectPath, Len(rankedKnowledge))
                        ELSE reused
                  /\ knowledge' = used.knowledge
                  /\ knowledgeUsage' = used.usage
                  /\ UNCHANGED fileImportance
                  /\ last' = IF failing # 0
                             THEN [op |-> "session_start", arg |-> projectPath,
                                   res |-> "error", input |-> 0, out |-> NoOut]
                             ELSE
                             [op |-> "session_start", arg |-> projectPath,
                              res |-> "ok", input |-> 0,
                              out |-> [NoOut EXCEPT
                                 !.recent = [n \in 1..Len(rankedSessions) |->
                                    [session |-> rankedSessions[n].session.sessionId,
                                     decisions |-> getSessionEvents(events,
                                         rankedSessions[n].session.sessionId, "decision"),
                                     patterns |-> getSessionEvents(events,
                                         rankedSessions[n].session.sessionId, "pattern")]],
                                 !.knowledge = surfaced,
                                 !.files = importantFiles]]
    /\ UNCHANGED <<migrationTable, versionLog, schema, execLog, dbOpen, events>>

\* session_end
SessionEnd(sessionId, summary, gitCommit, t) ==
    /\ dbOpen
    /\ t \in ClockReadings
    /\ sessions' = endSession(sessions, sessionId, t, summary, gitCommit)
    /\ last' = [op |-> "session_end", arg |-> sessionId,
                res |-> IF endSessionMatches(sessions, sessionId) = {}
                        THEN "not_found_or_ended" ELSE "ok",
                input |-> t, out |-> NoOut]
    /\ UNCHANGED <<migrationTable, versionLog, schema, execLog, dbOpen, events,
                   valueSessions, agentSessions, knowledgeVars>>

\* The event record_event builds: the caller's eventType is not read
BuildEventTrustCaller(sessionId, eventType, detail, t) ==
    [sessionId |-> sessionId, timestamp |-> t, eventType |-> eventType,
     category |-> categorizeEvent(eventType), detail |-> detail]

BuildEvent(sessionId, eventType, detail, t) ==
    [sessionId |-> sessionId, timestamp |-> t,
     eventType |-> deriveEventType(detail),
     category |-> categorizeEvent(deriveEventType(detail)),
     detail |-> detail]

\* The session checks of record_event
RecordEventCheckExistsOnly(ss, sessionId) ==
    IF ~hasSession(ss, sessionId) THEN "not_found" ELSE "ok"

RecordEventCheck(ss, sessionId) ==
    IF ~hasSession(ss, sessionId) THEN "not_found"
    ELSE IF ss[sessionId].status # "active" THEN "not_active"
    ELSE "ok"

\* record_event
RecordEvent(sessionId, eventType, detail, t) ==
    /\ dbOpen
    /\ t \in ClockReadings
    /\ LET check == RecordEventCheck(sessions, sessionId)
       IN /\ events' = IF check = "ok"
                       THEN insertEvent(events, BuildEvent(sessionId, eventType, detail, t))
                       ELSE events
          /\ last' = [op |-> "record_event", arg |-> sessionId, res |-> check,
                      input |-> eventType, out |-> NoOut]
    /\ UNCHANGED <<migrationTable, versionLog, schema, execLog, dbOpen, sessions,
                   valueSessions, agentSessions, knowledgeVars>>

\* promote_knowledge.  sessionId 0: omitted; supersedes 0: omitted.  The
\* caller's tags and sourceEventId are stored with the item and read by
\* nothing else; they are left out.  found is the value of
\* findDuplicates(db, projectPath, title, content) in the state of the call,
\* which the callers below compute once for all the calls of one request.
PromoteKnowledge(projectPath, title, content, knowledgeType, sessionId, allowDuplicate, supersedes, t, found) ==
    /\ dbOpen
    /\ t \in ClockReadings
    /\ \E duplicates \in (IF allowDuplicate THEN {<<>>} ELSE found) :
          LET request == [title |-> title, content |-> content,
                          allowDuplicate |-> allowDuplicate, supersedes |-> supersedes]
              k == [projectPath |-> projectPath,
                    sessionId |-> sessionId,
                    title |-> title,
                    content |-> content,
                    knowledgeType |-> knowledgeType,
                    createdAt |-> t,
                    branch |-> IF hasSession(sessions, sessionId)
                               THEN sessions[sessionId].branch ELSE NoText,
                    contentHash |-> computeContentHash(content),
                    usageCount |-> 0]
              inserted == insertKnowledge(knowledge, k)
              promoted == IF supersedes # 0
                          THEN markSuperseded(inserted, supersedes, Len(inserted))
                          ELSE inserted
          IN IF Len(duplicates) > 0
             THEN \* duplicate detected: reported, nothing written, no error
                  /\ UNCHANGED knowledge
                  /\ last' = [op |-> "promote_knowledge", arg |-> projectPath,
                              res |-> "duplicate", input |-> request,
                              out |-> [NoOut EXCEPT !.dup = <<duplicates[1]>>]]
             ELSE IF sessionId # 0 /\ ~hasSession(sessions, sessionId)
             THEN \* session_id REFERENCES sessions: the INSERT throws
                  /\ UNCHANGED knowledge
                  /\ last' = [op |-> "promote_knowledge", arg |-> projectPath,
                              res |-> "error", input |-> request, out |-> NoOut]
             ELSE /\ knowledge' = promoted
                  /\ \E existing \in getProjectKnowledge(promoted, projectPath, NoText, 100) :
                        last' = [op |-> "promote_knowledge", arg |-> projectPath,
                                 res |-> "ok", input |-> request,
                                 out |-> [NoOut EXCEPT !.count = Len(existing)]]
    /\ UNCHANGED <<migrationTable, versionLog, schema, execLog, dbOpen, sessions,
                   events, valueSessions, agentSessions, knowledgeUsage,
                   valueCounters, fileImportance>>

\* get_knowledge (knowledgeType NoText: omitted; limit 0: omitted, 20)
GetKnowledge(projectPath, knowledgeType, limit) ==
    /\ dbOpen
    /\ \E items \in getProjectKnowledge(knowledge, projectPath, knowledgeType,
                                        IF limit = 0 THEN 20 ELSE limit) :
          last' = [op |-> "get_knowledge", arg |-> projectPath,
                   res |-> IF Len(items) = 0 THEN "none_found" ELSE "ok",
                   input |-> knowledgeType,
                   out |-> [NoOut EXCEPT !.knowledge = items]]
    /\ UNCHANGED <<migrationTable, versionLog, schema, execLog, dbOpen>>
    /\ UNCHANGED dataVars

\* get_value_metrics: the report, of which the knowledge count is kept
GetValueMetrics(projectPath) ==
    /\ dbOpen
    /\ last' = [op |-> "get_value_metrics", arg |-> projectPath,
                res |-> IF valueCounters[projectPath].exists THEN "ok" ELSE "no_data",
                input |-> 0,
                out |-> IF valueCounters[projectPath].exists
                        THEN [NoOut EXCEPT
                                 !.count = getKnowledgeCount(knowledge, projectPath).total]
                        ELSE NoOut]
    /\ UNCHANGED <<migrationTable, versionLog, schema, execLog, dbOpen>>
    /\ UNCHANGED dataVars

\* recall (query <<>>, branch NoText, eventType NoText, limit 0: omitted).
\* gitBranch is what the git probe answers.  throws: a storage exception
\* surfaces in the UPDATE of the usage count of one of the recalled items
\* (when no usage is recorded the statement is not reached); what ran
\* before it stays written.
Recall(projectPath, query, branch, gitBranch, eventType, limit, t, tickDays, throws) ==
    /\ dbOpen
    /\ t \in ClockReadings
    /\ LET maxResults == IF limit = 0 THEN 10 ELSE limit
           currentBranch == IF branch # NoText THEN branch ELSE gitBranch
           days == Ages(t, tickDays)
       IN IF eventType # NoText /\ query = <<>>
          THEN /\ \E found \in getRecentEvents(events, sessions, projectPath,
                                               eventType, maxResults) :
                     last' = [op |-> "recall", arg |-> projectPath,
                              res |-> IF Len(found) = 0 THEN "none_found" ELSE "ok",
                              input |-> eventType,
                              out |-> [NoOut EXCEPT !.events = found]]
               /\ UNCHANGED <<knowledge, knowledgeUsage, valueCounters>>
          ELSE \E activeSession \in (IF getActiveSession(sessions, projectPath) = {}
                                     THEN {0} ELSE getActiveSession(sessions, projectPath)),
                  items \in (IF eventType \in {"decision", "pattern"}
                             THEN getProjectKnowledge(knowledge, projectPath,
                                                      eventType, maxResults)
                             ELSE {<<>>}),
                  found \in searchSessions(sessions, projectPath, query, branch, maxResults) :
               \E rankedKnowledge \in
                       {rankKnowledge([n \in 1..Len(items) |->
                                          KnowledgeItem(knowledge, items[n])],
                                      currentBranch, days)},
                  rankedSessions \in
                       {rankSessions([n \in 1..Len(found) |-> SessionItem(sessions, found[n])],
                                     currentBranch, days)} :
               \E failing \in (IF throws /\ activeSession # 0 /\ Len(rankedKnowledge) > 0
                                THEN 1..Len(rankedKnowledge) ELSE {0}) :
               LET recalled == [n \in 1..Len(rankedKnowledge) |->
                                   rankedKnowledge[n].knowledge.knowledgeId]
                   used == IF activeSession # 0
                           THEN recordUsageOfAll([knowledge |-> knowledge,
                                                  usage |-> knowledgeUsage],
                                                 recalled, 1, activeSession, "recalled",
                                                 failing)
                           ELSE [knowledge |-> knowledge, usage |-> knowledgeUsage]
               IN /\ knowledge' = used.knowledge
                  /\ knowledgeUsage' = used.usage
                  /\ valueCounters' =
                        IF Len(rankedKnowledge) = 0 THEN valueCounters
                        ELSE IF eventType = "decision"
                        THEN incrementDecisionRecall(valueCounters, projectPath,
                                                     Len(rankedKnowledge))
                        ELSE incrementPatternApplied(valueCounters, projectPath,
                                                     Len(rankedKnowledge))
                  /\ last' = IF failing # 0
                             THEN [op |-> "recall", arg |-> projectPath, res |-> "error",
                                   input |-> eventType, out |-> NoOut]
                             ELSE
                             [op |-> "recall", arg |-> projectPath,
                              res |-> IF Len(found) = 0 /\ Len(recalled) = 0
                                      THEN "none_found" ELSE "ok",
                              input |-> eventType,
                              out |-> [NoOut EXCEPT
                                 !.knowledge = recalled,
                                 !.recent = [n \in 1..Len(rankedSessions) |->
                                    [session |-> rankedSessions[n].session.sessionId,
                                     decisions |-> getSessionEvents(events,
                                         rankedSessions[n].session.sessionId,
                                         IF eventType # NoText THEN eventType ELSE "decision"),
                                     patterns |-> IF eventType # NoText THEN {}
                                         ELSE getSessionEvents(events,
                                             rankedSessions[n].session.sessionId, "pattern")]]]]
    /\ UNCHANGED <<migrationTable, versionLog, schema, execLog, dbOpen, sessions,
                   events, valueSessions, agentSessions, fileImportance>>

(* ------------------------------ init ---------------------------------- *)

NoCall == [op |-> "none", arg |-> 0, res |-> "none", input |-> 0, out |-> NoOut]

EmptyData ==
    /\ sessions = <<>>
    /\ events = <<>>
    /\ valueSessions = [p \in Projects |-> 0]
    /\ agentSessions = 0
    /\ knowledge = <<>>
    /\ knowledgeUsage = <<>>
    /\ valueCounters = [p \in Projects |-> NoValueMetrics]
    /\ fileImportance = {}

\* A new store, created by createDatabase of the build (as
\* createInMemoryDatabase does): every migration applied and logged.
Init ==
    /\ migrationTable = MIGRATIONS
    /\ LET r == runMigrations(<<>>, {}, MIGRATIONS, 0)
       IN /\ versionLog = r.log
          /\ schema = r.schema
          /\ execLog = r.exec
          /\ dbOpen = (r.error = "none")
    /\ EmptyData
    /\ last = NoCall

\* The session ids a caller passes: those of the stored sessions and, while
\* fewer than maxSessions are stored, one that no session has
SessionIds(maxSessions) ==
    1..(IF Len(sessions) < maxSessions THEN Len(sessions) + 1 ELSE Len(sessions))

StartCalls(projects, maxSessions, tickDays, failures) ==
    \E p \in projects, i \in StartInputs, t \in ClockReadings, failAt \in failures,
       td \in tickDays :
        /\ Len(sessions) < maxSessions
        /\ SessionStart(p, i.branch, i.gitCommit, i.gitBranch, i.gitHead, t, failAt, td)

EndCalls(maxSessions) ==
    \E sid \in SessionIds(maxSessions), t \in ClockReadings,
       e \in {[summary |-> "First", gitCommit |-> "<null>"],
              [summary |-> "<null>", gitCommit |-> "abc123"]} :
        SessionEnd(sid, e.summary, e.gitCommit, t)

EventCalls(maxSessions, maxEvents, callerTypes, details) ==
    \E sid \in SessionIds(maxSessions), et \in callerTypes, d \in details, t \in ClockReadings :
        /\ RecordEventCheck(sessions, sid) = "ok" => Len(events) < maxEvents
        /\ RecordEvent(sid, et, d, t)

\* The three tools on the sessions of one project
Next ==
    \/ StartCalls(OneProject, MaxSessions, Recent, {"none", "upsertAgent", "incrementSessionCount"})
    \/ EndCalls(MaxSessions)
    \/ EventCalls(MaxSessions, MaxEvents, LifecycleCallerTypes, LifecycleDetails)

Spec == Init /\ [][Next]_vars

\* A store file left at version v by an earlier run (v = 0: a new file), not
\* yet opened, and a build whose MIGRATIONS table is complete or lacks one entry.
InitStore ==
    /\ migrationTable \in {MIGRATIONS} \cup {MIGRATIONS \ {m} : m \in MIGRATIONS}
    /\ \E v \in 0..CURRENT_SCHEMA_VERSION :
          /\ versionLog = [i \in 1..v |-> i]
          /\ schema = 1..v
    /\ execLog = <<>>
    /\ dbOpen = FALSE
    /\ EmptyData
    /\ last = NoCall

NextStore ==
    \/ \E failAt \in 0..CURRENT_SCHEMA_VERSION : CreateDatabase(failAt)
    \/ StartCalls(Projects, StoreMaxSessions, Recent, {"none", "upsertAgent"})
    \/ EndCalls(StoreMaxSessions)
    \/ EventCalls(StoreMaxSessions, StoreMaxEvents, LifecycleCallerTypes, LifecycleDetails)

SpecStore == InitStore /\ [][NextStore]_vars

\* The sessions table alone: session_start and session_end on two projects
NextSessions ==
    \/ StartCalls(Projects, SessionsMaxSessions, Recent, {"none", "upsertAgent"})
    \/ EndCalls(SessionsMaxSessions)

SpecSessions == Init /\ [][NextSessions]_vars

\* record_event with every detail kind and every caller-supplied eventType,
\* on the sessions of one project
NextEvents ==
    \/ StartCalls(OneProject, EventsMaxSessions, Recent, {"none", "upsertAgent"})
    \/ EventCalls(EventsMaxSessions, EventsMaxEvents, EventTypes, Details)

SpecEvents == Init /\ [][NextEvents]_vars

(* --------------------- knowledge promotion and recall ------------------ *)

\* Titles and contents the callers of promote_knowledge give
JwtAuthentication ==
    <<"U", "s", "e", " ", "J", "W", "T", " ", "f", "o", "r", " ",
      "a", "u", "t", "h", "e", "n", "t", "i", "c", "a", "t", "i", "o", "n">>
JwtAuth ==
    <<"U", "s", "e", " ", "J", "W", "T", " ", "f", "o", "r", " ", "a", "u", "t", "h">>
UseJwt == <<"U", "s", "e", " ", "J", "W", "T">>
UseJwtSpaced == <<" ", "u", "s", "e", " ", "\t", "j", "w", "t">>
UseJws == <<"U", "s", "e", " ", "J", "W", "S">>

ContentAb == <<"A", " ", "b">>
ContentAbSpaced == <<" ", "a", "\t", " ", "B", "\n">>
ContentC == <<"c">>

Other == <<"N", "o">>

PromoteRequests ==
    {[projectPath |-> "/p1", title |-> UseJwt, content |-> ContentAb],
     [projectPath |-> "/p1", title |-> UseJws, content |-> ContentAbSpaced],
     [projectPath |-> "/p1", title |-> UseJwtSpaced, content |-> ContentC]}

JwtRequests ==
    {[projectPath |-> "/p1", title |-> JwtAuthentication, content |-> ContentAb],
     [projectPath |-> "/p1", title |-> JwtAuth, content |-> ContentC]}

SurfaceRequests ==
    {[projectPath |-> "/p1", title |-> UseJwt, content |-> ContentAb],
     [projectPath |-> "/p1", title |-> Other, content |-> ContentC]}

\* promote_knowledge calls, while the table holds at most maxItems items
PromoteCalls(requests, types, sessionIds, allows, maxItems) ==
    \E r \in requests :
    \E found \in {findDuplicates(knowledge, r.projectPath, r.title, r.content)} :
    \E ty \in types, sid \in sessionIds,
       allowDuplicate \in allows, supersedes \in 0..Len(knowledge),
       t \in ClockReadings :
        /\ PromoteKnowledge(r.projectPath, r.title, r.content, ty, sid,
                            allowDuplicate, supersedes, t, found)
        /\ Len(knowledge') <= maxItems

GetKnowledgeCalls(projects, types, limits) ==
    \E p \in projects, ty \in types, limit \in limits :
        GetKnowledge(p, ty, limit)

\* recall calls.  A call that can count recalled knowledge needs room in
\* the counters.
RecallCalls(projects, inputs, limits, maxRecalled, tickDays, failures) ==
    \E p \in projects, i \in inputs, limit \in limits, t \in ClockReadings,
       td \in tickDays, throws \in failures :
        /\ (i.eventType # NoText /\ i.query # <<>>)
              => valueCounters[p].decisionsRecalledCount
                 + valueCounters[p].patternsAppliedCount < maxRecalled
        /\ Recall(p, i.query, NoText, "main", i.eventType, limit, t, td, throws)

\* promote_knowledge and get_knowledge on two projects, no sessions
NextKnowledge ==
    \/ PromoteCalls(PromoteRequests, {"decision"}, {0}, BOOLEAN, KnowledgeMaxItems)
    \/ GetKnowledgeCalls(OneProject, {"decision", NoText}, {0, 1})

SpecKnowledge == Init /\ [][NextKnowledge]_vars

\* The same on the two JWT titles
NextJwt ==
    \/ PromoteCalls(JwtRequests, {"decision"}, {0, 1}, BOOLEAN, KnowledgeMaxItems)
    \/ GetKnowledgeCalls(OneProject, {"decision", NoText}, {0, 1})

SpecJwt == Init /\ [][NextJwt]_vars

\* Knowledge promoted, surfaced by session_start, recalled and counted, on
\* one project
NextSurface ==
    \/ StartCalls(OneProject, SurfaceMaxSessions, {7}, {"none"})
    \/ PromoteCalls(SurfaceRequests, {"decision"}, {0}, {FALSE}, SurfaceMaxItems)
    \/ RecallCalls(OneProject,
                   {[query |-> <<>>, eventType |-> NoText],
                    [query |-> <<"i", "R">>, eventType |-> "decision"]},
                   {0}, SurfaceMaxRecalled, {7}, {FALSE})
    \/ GetKnowledgeCalls(OneProject, {NoText}, {0})
    \/ \E p \in OneProject : GetValueMetrics(p)

SpecSurface == Init /\ [][NextSurface]_vars

(* ------------------------------ ranking -------------------------------- *)

\* Sequences of at most n elements of S
SeqsUpTo(S, n) == UNION {[1..k -> S] : k \in 0..n}

\* The item lists given to rankKnowledge: every item is on a branch or on
\* none, was created at one of the clock readings and was used up to
\* RankMaxUsage times; the knowledgeId of an item is its place in the list
RankItems ==
    {[n \in 1..Len(fields) |->
         [knowledgeId |-> n, branch |-> fields[n].branch,
          createdAt |-> fields[n].createdAt, usageCount |-> fields[n].usageCount]] :
     fields \in SeqsUpTo([branch : {"main", "dev", NoText}, createdAt : 1..MaxTime,
                          usageCount : 0..RankMaxUsage], RankMaxItems)}

\* The same rows read as sessions
AsSessions(items) ==
    [n \in 1..Len(items) |->
        [sessionId |-> items[n].knowledgeId, branch |-> items[n].branch,
         startedAt |-> items[n].createdAt]]

\* A list to rank, the caller's branch, and the days between clock readings
InitRank ==
    /\ migrationTable = MIGRATIONS
    /\ LET r == runMigrations(<<>>, {}, MIGRATIONS, 0)
       IN /\ versionLog = r.log
          /\ schema = r.schema
          /\ execLog = r.exec
          /\ dbOpen = (r.error = "none")
    /\ EmptyData
    /\ \E items \in RankItems, currentBranch \in {"main", "dev"}, td \in TickDays :
          last = [op |-> "none", arg |-> items, res |-> "none",
                  input |-> [currentBranch |-> currentBranch, tickDays |-> td],
                  out |-> NoOut]

\* rankKnowledge / rankSessions applied to the list, the clock reading MaxTime
RankKnowledge ==
    /\ last.op = "none"
    /\ last' = [last EXCEPT
                   !.op = "rankKnowledge",
                   !.out.knowledge = rankKnowledge(last.arg, last.input.currentBranch,
                                                   Ages(MaxTime, last.input.tickDays))]
    /\ UNCHANGED <<migrationTable, versionLog, schema, execLog, dbOpen>>
    /\ UNCHANGED dataVars

RankSessions ==
    /\ last.op = "none"
    /\ last' = [last EXCEPT
                   !.op = "rankSessions",
                   !.out.recent = rankSessions(AsSessions(last.arg), last.input.currentBranch,
                                               Ages(MaxTime, last.input.tickDays))]
    /\ UNCHANGED <<migrationTable, versionLog, schema, execLog, dbOpen>>
    /\ UNCHANGED dataVars

NextRank == RankKnowledge \/ RankSessions

SpecRank == InitRank /\ [][NextRank]_vars

(* ------------------------------ claims -------------------------------- *)

ActiveOf(ss, p) ==
    {i \in 1..Len(ss) : ss[i].projectPath = p /\ ss[i].status = "active"}

EventsOf(es, sid) == {i \in 1..Len(es) : es[i].sessionId = sid}

Ended(ss, sid) == hasSession(ss, sid) /\ ss[sid].status # "active"

\* C1: in every reachable state each project path has at most one session
\* whose status is active.
C1_OneActivePerProject ==
    \A p \in Projects : Cardinality(ActiveOf(sessions, p)) <= 1

\* a second session_start for a project has abandoned the first session
C1_Witness ==
    \E i, j \in 1..Len(sessions) :
        /\ i < j
        /\ sessions[i].projectPath = sessions[j].projectPath
        /\ sessions[i].status = "abandoned"
        /\ sessions[j].status = "active"

\* C2: a successful session_start for project P issued while P has active
\* sessions turns exactly those sessions into abandoned ones (ended at the
\* time of the call), leaves every other session as it was, appends exactly
\* one new active session of P, and getActiveSession(P) then returns it.
C2_StartAbandonsAndCreates ==
    [][(last'.op = "session_start" /\ last'.res = "ok"
          /\ ActiveOf(sessions, last'.arg) # {})
       => LET p == last'.arg
              n == Len(sessions)
          IN /\ Len(sessions') = n + 1
             /\ \A i \in 1..n :
                   sessions'[i] =
                      IF i \in ActiveOf(sessions, p)
                      THEN [sessions[i] EXCEPT !.status = "abandoned", !.endedAt = sessions'[n + 1].startedAt]
                      ELSE sessions[i]
             /\ sessions'[n + 1].projectPath = p
             /\ sessions'[n + 1].status = "active"
             /\ ActiveOf(sessions', p) = {n + 1}
             /\ getActiveSession(sessions', p) = {n + 1}]_vars

\* session_start just succeeded for a project that had an active session
\* and a completed one: the active one was abandoned at the start time of
\* the new session, the completed one is still completed
C2_Witness ==
    /\ last.op = "session_start" /\ last.res = "ok"
    /\ sessions[Len(sessions)].projectPath = last.arg
    /\ sessions[Len(sessions)].status = "active"
    /\ \E i, j \in 1..(Len(sessions) - 1) :
          /\ sessions[i].projectPath = last.arg
          /\ sessions[i].status = "abandoned"
          /\ sessions[i].endedAt = sessions[Len(sessions)].startedAt
          /\ sessions[i].startedAt < sessions[i].endedAt
          /\ sessions[j].projectPath = last.arg
          /\ sessions[j].status = "completed"

\* C3: once a session is completed or abandoned, no call changes its status.
C3_TerminalStatusIsFinal ==
    [][\A i \in 1..Len(sessions) :
          sessions[i].status \in {"completed", "abandoned"}
          => /\ i <= Len(sessions')
             /\ sessions'[i].status = sessions[i].status]_vars

\* a session_end was issued on an abandoned session after a later
\* session_start of its project
C3_Witness ==
    /\ last.op = "session_end"
    /\ hasSession(sessions, last.arg)
    /\ sessions[last.arg].status = "abandoned"
    /\ \E j \in 1..Len(sessions) :
          j > last.arg /\ sessions[j].projectPath = sessions[last.arg].projectPath

\* C4: a session_end on an already-completed session reports not-found /
\* already-ended and leaves the session row (summary, end timestamp,
\* end-commit reference and all else) as the first call set it.
C4_SecondEndIsRefused ==
    [][(last'.op = "session_end" /\ hasSession(sessions, last'.arg)
          /\ sessions[last'.arg].status = "completed")
       => /\ last'.res = "not_found_or_ended"
          /\ sessions' = sessions]_vars

\* a later second session_end was refused; the row still holds the first
\* call's summary and its earlier end timestamp
C4_Witness ==
    /\ last.op = "session_end" /\ last.res = "not_found_or_ended"
    /\ hasSession(sessions, last.arg)
    /\ sessions[last.arg].status = "completed"
    /\ sessions[last.arg].summary = "First"
    /\ sessions[last.arg].endedAt < last.input

\* C5: record_event for a session id that does not exist, or whose session
\* is completed or abandoned, returns an error and inserts no event; the
\* events of a session that is no longer active never change.
C5_NoEventUnlessActive ==
    [][/\ (last'.op = "record_event"
            /\ (~hasSession(sessions, last'.arg) \/ Ended(sessions, last'.arg)))
          => /\ last'.res \in {"not_found", "not_active"}
             /\ events' = events
       /\ \A i \in 1..Len(sessions) :
            Ended(sessions, i)
            => /\ EventsOf(events', i) = EventsOf(events, i)
               /\ \A k \in EventsOf(events, i) : events'[k] = events[k]]_vars

\* record_event was refused for an ended session that holds an event
C5_Witness ==
    /\ last.op = "record_event" /\ last.res = "not_active"
    /\ Ended(sessions, last.arg)
    /\ EventsOf(events, last.arg) # {}

\* The event type the claim assigns to a detail payload
ClaimedEventType(detail) ==
    IF detail.type = "file_op"
    THEN CASE detail.operation = "read" -> "file_read"
           [] detail.operation = "write" -> "file_write"
           [] detail.operation = "edit" -> "file_edit"
    ELSE detail.type

\* C6: every stored event has the event type derived from its detail
\* payload and the category of that type, whatever eventType the caller gave.
C6_EventTypeFromDetail ==
    \A k \in 1..Len(events) :
        /\ events[k].eventType = ClaimedEventType(events[k].detail)
        /\ events[k].category = categorizeEvent(ClaimedEventType(events[k].detail))

\* an event was stored whose caller-supplied eventType disagrees with its detail
C6_Witness ==
    /\ last.op = "record_event" /\ last.res = "ok"
    /\ events # <<>>
    /\ events[Len(events)].detail.type = "file_op"
    /\ events[Len(events)].eventType = "file_edit"
    /\ events[Len(events)].category = "edit"
    /\ last.input = "decision"


UpTo(n) == [i \in 1..n |-> i]

\* C7: opening a store whose version log holds 1..v, with a MIGRATIONS entry
\* for each of v+1..N and no failing statement, succeeds, executes exactly
\* the migrations v+1, ..., N in ascending order, each once, and leaves the
\* version log holding exactly 1..N; no open succeeds in any other way.
C7_MigratesToCurrent ==
    (/\ last.op = "open"
     /\ \/ last.res = "none"
        \/ /\ (last.arg + 1)..CURRENT_SCHEMA_VERSION \subseteq migrationTable
           /\ last.input \notin (last.arg + 1)..CURRENT_SCHEMA_VERSION)
    => /\ last.res = "none"
       /\ dbOpen
       /\ execLog = [i \in 1..(CURRENT_SCHEMA_VERSION - last.arg) |-> last.arg + i]
       /\ versionLog = UpTo(CURRENT_SCHEMA_VERSION)
       /\ schema = 1..CURRENT_SCHEMA_VERSION

\* a store at version 1 was opened and brought to the current version
C7_Witness ==
    /\ last.op = "open" /\ last.res = "none" /\ last.arg = 1
    /\ execLog = <<2, 3>>
    /\ versionLog = <<1, 2, 3>>

\* C8: each migration step is its own transaction: when migration k fails
\* in a run that started below version k-1, the migrations before k stay
\* applied and logged (the store is left at version k-1) and k leaves nothing.
C8_StepTransactions ==
    (/\ last.op = "open" /\ last.res = "exec"
     /\ execLog # <<>>
     /\ last.arg < execLog[Len(execLog)] - 1)
    => LET k == execLog[Len(execLog)]
       IN /\ versionLog = UpTo(k - 1)
          /\ schema = 1..(k - 1)

\* C9: when MIGRATIONS has no entry for some m with currentVersion < m <= N,
\* opening the store fails and no migration numbered above m is executed,
\* applied or logged.
C9_MissingMigrationHalts ==
    \A m \in 1..CURRENT_SCHEMA_VERSION :
        (last.op = "open" /\ last.arg < m /\ m \notin migrationTable)
        => /\ last.res # "none"
           /\ ~dbOpen
           /\ \A j \in (m + 1)..CURRENT_SCHEMA_VERSION :
                 /\ j \notin Range(execLog)
                 /\ j \notin Range(versionLog)
                 /\ j \notin schema

\* the open of a new store stopped at the missing migration 2, after
\* migration 1 had been executed, with migration 3 present in the table
C9_Witness ==
    /\ last.op = "open" /\ last.res = "missing" /\ last.arg = 0
    /\ migrationTable = {1, 3}
    /\ execLog = <<1>>

\* C10: opening a store that is at version N executes no migration and
\* leaves the version log, the schema and all stored data unchanged; the
\* version log never holds a version number twice.
C10_OpenAtCurrentIsNoOp ==
    /\ [](\A i, j \in 1..Len(versionLog) : versionLog[i] = versionLog[j] => i = j)
    /\ [][(last'.op = "open" /\ versionLog = UpTo(CURRENT_SCHEMA_VERSION))
          => /\ last'.res = "none"
             /\ execLog' = <<>>
             /\ versionLog' = versionLog
             /\ schema' = schema
             /\ sessions' = sessions
             /\ events' = events
             /\ valueSessions' = valueSessions
             /\ agentSessions' = agentSessions]_vars

\* a store at the current version that holds a session and an event was
\* opened again
C10_Witness ==
    /\ last.op = "open" /\ last.res = "none"
    /\ last.arg = CURRENT_SCHEMA_VERSION
    /\ execLog = <<>>
    /\ sessions # <<>>
    /\ events # <<>>

\* The superseded items of the table
Superseded == {i \in 1..Len(knowledge) : knowledge[i].supersededBy # 0}

\* C11: a superseded knowledge item is returned by none of the queries
\* (getProjectKnowledge, getUnsyncedKnowledge, findDuplicates), is not
\* counted by getKnowledgeCount, and appears in nothing that session_start,
\* recall, get_knowledge, get_value_metrics or promote_knowledge gave back.
C11_SupersededNeverReturned ==
    /\ \A p \in OneProject, ty \in {NoText, "decision"} :
          \A items \in getProjectKnowledge(knowledge, p, ty, 100) :
              Range(items) \cap Superseded = {}
    /\ \A p \in OneProject :
          /\ \A items \in getUnsyncedKnowledge(knowledge, p) :
                Range(items) \cap Superseded = {}
          /\ getKnowledgeCount(knowledge, p).total =
                Cardinality({i \in 1..Len(knowledge) \ Superseded :
                                knowledge[i].projectPath = p})
    /\ \A r \in SurfaceRequests :
          \A duplicates \in findDuplicates(knowledge, r.projectPath, r.title, r.content) :
              \A n \in 1..Len(duplicates) :
                  duplicates[n].existingKnowledge \notin Superseded
    /\ Range(last.out.knowledge) \cap Superseded = {}
    /\ \A n \in 1..Len(last.out.dup) : last.out.dup[n].existingKnowledge \notin Superseded
    /\ (last.op \in {"get_value_metrics", "promote_knowledge"} /\ last.res = "ok")
          => last.out.count =
                Cardinality({i \in 1..Len(knowledge) \ Superseded :
                                knowledge[i].projectPath = last.arg})

\* An item was superseded, and a session_start surfaced knowledge after that
C11_Witness ==
    /\ Superseded # {}
    /\ last.op = "session_start"
    /\ last.out.knowledge # <<>>

\* The items of a project that are not superseded
Current(projectPath) ==
    {i \in 1..Len(knowledge) :
        knowledge[i].projectPath = projectPath /\ knowledge[i].supersededBy = 0}

\* The similarity of every two titles the callers give
RequestTitles == {r.title : r \in PromoteRequests \cup JwtRequests \cup SurfaceRequests}

TitleSimilarity ==
    [a \in RequestTitles |-> [b \in RequestTitles |-> computeTitleSimilarity(a, b)]]

\* C12: a promote_knowledge call without the override for which duplicate
\* detection has at least one candidate writes nothing (no item, no
\* supersession mark, no usage), is a normal, non-error outcome, and
\* reports a candidate no other current item of the project beats in
\* similarity.
C12_RefusalWritesNothing ==
    [][(last'.op = "promote_knowledge" /\ ~last'.input.allowDuplicate)
       => \A similarity \in
              {[i \in Current(last'.arg) |->
                   TitleSimilarity[last'.input.title][knowledge[i].title]]} :
          (\E i \in Current(last'.arg) :
              \/ knowledge[i].contentHash = computeContentHash(last'.input.content)
              \/ SimGeq(similarity[i], TitleThreshold))
          => /\ knowledge' = knowledge
             /\ knowledgeUsage' = knowledgeUsage
             /\ last'.res = "duplicate"
             /\ Len(last'.out.dup) = 1
             /\ last'.out.dup[1].existingKnowledge \in Current(last'.arg)
             /\ \A i \in Current(last'.arg) :
                   SimGeq(last'.out.dup[1].similarityScore, similarity[i])]_vars

\* A call was refused while two current items matched its title, one more
\* closely than the other
C12_Witness ==
    /\ last.op = "promote_knowledge"
    /\ last.res = "duplicate"
    /\ last.out.dup[1].matchType = "title_match"
    /\ \E i, j \in Current(last.arg) :
          /\ SimGeq(TitleSimilarity[last.input.title][knowledge[j].title], TitleThreshold)
          /\ ~SimGeq(TitleSimilarity[last.input.title][knowledge[j].title],
                     TitleSimilarity[last.input.title][knowledge[i].title])

\* The text each content of the callers normalizes to (case folded, every
\* whitespace run one space, trimmed), written out by hand
NormalText ==
    [c \in {ContentAb, ContentAbSpaced, ContentC} |->
        IF c = ContentC THEN <<"c">> ELSE <<"a", " ", "b">>]

\* C13: when a current item of project P has a content that normalizes to
\* the same text as the content of a promote_knowledge call in P, the call
\* without the override is refused and reports that item as an exact
\* duplicate of similarity 1.0; the call with the override writes the item.
C13_SameTextIsExactDuplicate ==
    [][(/\ last'.op = "promote_knowledge"
        /\ \E i \in Current(last'.arg) :
              NormalText[knowledge[i].content] = NormalText[last'.input.content])
       => IF last'.input.allowDuplicate
          THEN /\ last'.res = "ok"
               /\ Len(knowledge') = Len(knowledge) + 1
               /\ knowledge'[Len(knowledge')].content = last'.input.content
               /\ knowledge'[Len(knowledge')].title = last'.input.title
               /\ knowledge'[Len(knowledge')].projectPath = last'.arg
               /\ knowledge'[Len(knowledge')].supersededBy = 0
          ELSE /\ last'.res = "duplicate"
               /\ knowledge' = knowledge
               /\ last'.out.dup[1].matchType = "exact_hash"
               /\ last'.out.dup[1].similarityScore.num = last'.out.dup[1].similarityScore.den
               /\ last'.out.dup[1].existingKnowledge \in Current(last'.arg)
               /\ NormalText[knowledge[last'.out.dup[1].existingKnowledge].content]
                     = NormalText[last'.input.content]]_vars

\* A call was refused as the exact duplicate of an item whose content
\* differs from the call's in case and spacing
C13_Witness ==
    /\ last.op = "promote_knowledge"
    /\ last.res = "duplicate"
    /\ last.out.dup[1].matchType = "exact_hash"
    /\ knowledge[last.out.dup[1].existingKnowledge].content # last.input.content

\* C14: after a promote_knowledge call was refused because of the duplicate
\* D, the same call repeated with supersedes = D (override not set) writes
\* the new item and marks D superseded by it.
C14_SupersedingRetryIsWritten ==
    [][(/\ last.op = "promote_knowledge"
        /\ last.res = "duplicate"
        /\ last'.op = "promote_knowledge"
        /\ last'.arg = last.arg
        /\ last'.input = [last.input EXCEPT
                             !.supersedes = last.out.dup[1].existingKnowledge])
       => /\ last'.res = "ok"
          /\ Len(knowledge') = Len(knowledge) + 1
          /\ knowledge'[Len(knowledge')].title = last'.input.title
          /\ knowledge'[last'.input.supersedes].supersededBy = Len(knowledge')]_vars

\* C15: a session_start raises by exactly 1 the usage counter of every
\* knowledge item it returns, and leaves every other item as it was.
C15_SurfacingCountsOnce ==
    [][(last'.op = "session_start" /\ last'.res = "ok")
       => /\ Len(knowledge') = Len(knowledge)
          /\ \A m, n \in 1..Len(last'.out.knowledge) :
                last'.out.knowledge[m] = last'.out.knowledge[n] => m = n
          /\ \A i \in 1..Len(knowledge) :
                IF i \in Range(last'.out.knowledge)
                THEN knowledge'[i] = [knowledge[i] EXCEPT !.usageCount = @ + 1]
                ELSE knowledge'[i] = knowledge[i]]_vars

\* A session_start returned an item, now used once, and there is an item
\* it did not return, unused
C15_Witness ==
    /\ last.op = "session_start"
    /\ last.res = "ok"
    /\ \E i \in Range(last.out.knowledge) : knowledge[i].usageCount = 1
    /\ \E i \in 1..Len(knowledge) :
          i \notin Range(last.out.knowledge) /\ knowledge[i].usageCount = 0

\* C16: when the latest session S1 of project P is completed and has a
\* recorded decision event, the next session_start for P returns a
\* recent-sessions list that holds S1 with that decision; every session of
\* the list is a completed session of P, never an active or abandoned one.
C16_RecentSessionsAreCompleted ==
    [][(last'.op = "session_start" /\ last'.res = "ok")
       => /\ \A n \in 1..Len(last'.out.recent) :
                /\ last'.out.recent[n].session \in 1..Len(sessions)
                /\ sessions'[last'.out.recent[n].session].status = "completed"
                /\ sessions'[last'.out.recent[n].session].projectPath = last'.arg
          /\ \A s1 \in 1..Len(sessions), e \in 1..Len(events) :
                (/\ sessions[s1].projectPath = last'.arg
                 /\ sessions[s1].status = "completed"
                 /\ \A later \in (s1 + 1)..Len(sessions) :
                       sessions[later].projectPath # last'.arg
                 /\ events[e].sessionId = s1
                 /\ events[e].eventType = "decision")
                => \E n \in 1..Len(last'.out.recent) :
                      /\ last'.out.recent[n].session = s1
                      /\ e \in last'.out.recent[n].decisions]_vars

\* A session_start returned the completed session before it with its
\* decision
C16_Witness ==
    /\ last.op = "session_start"
    /\ last.res = "ok"
    /\ Len(last.out.recent) = 1
    /\ last.out.recent[1].session = Len(sessions) - 1
    /\ last.out.recent[1].decisions # {}
    /\ sessions[Len(sessions)].status = "active"

\* C17: rankKnowledge and rankSessions return a permutation of their input,
\* in non-increasing order of score, items of equal score in their input
\* order.
C17_RankIsStableDescendingPermutation ==
    /\ last.op = "rankKnowledge"
          => /\ Len(last.out.knowledge) = Len(last.arg)
             /\ \A i \in 1..Len(last.arg) :
                   \E n \in 1..Len(last.arg) : last.out.knowledge[n].knowledge = last.arg[i]
             /\ \A m, n \in 1..Len(last.arg) :
                   m < n =>
                      \/ last.out.knowledge[m].relevanceScore
                            > last.out.knowledge[n].relevanceScore
                      \/ /\ last.out.knowledge[m].relevanceScore
                               = last.out.knowledge[n].relevanceScore
                         /\ last.out.knowledge[m].knowledge.knowledgeId
                               < last.out.knowledge[n].knowledge.knowledgeId
    /\ last.op = "rankSessions"
          => /\ Len(last.out.recent) = Len(last.arg)
             /\ \A i \in 1..Len(last.arg) :
                   \E n \in 1..Len(last.arg) :
                      last.out.recent[n].session = AsSessions(last.arg)[i]
             /\ \A m, n \in 1..Len(last.arg) :
                   m < n =>
                      \/ last.out.recent[m].score > last.out.recent[n].score
                      \/ /\ last.out.recent[m].score = last.out.recent[n].score
                         /\ last.out.recent[m].session.sessionId
                               < last.out.recent[n].session.sessionId

\* rankKnowledge moved the second item of its input before the first
C17_Witness ==
    /\ last.op = "rankKnowledge"
    /\ Len(last.arg) = 2
    /\ last.out.knowledge[1].knowledge.knowledgeId = 2

\* The accesses recorded for a file of a project: the file_op events of the
\* project's sessions with that path and one of the operations
Accesses(projectPath, path, operations) ==
    {e \in 1..Len(events) :
        /\ events[e].detail.type = "file_op"
        /\ events[e].detail.path = path
        /\ events[e].detail.operation \in operations
        /\ sessions[events[e].sessionId].projectPath = projectPath}

\* C18: every successful record_event with a file-operation detail upserts
\* the FileImportance row of (project path of the session, file path): a
\* read raises its read count by 1, a write or edit its edit count by 1.
C18_FileAccessCounted ==
    \A e \in 1..Len(events) :
        events[e].detail.type = "file_op"
        => \E row \in fileImportance :
              /\ row.projectPath = sessions[events[e].sessionId].projectPath
              /\ row.filePath = events[e].detail.path
              /\ row.readCount =
                    Cardinality(Accesses(row.projectPath, row.filePath, {"read"}))
              /\ row.editCount =
                    Cardinality(Accesses(row.projectPath, row.filePath, {"write", "edit"}))

\* C19: the abandon-then-create of session_start is atomic: when the call
\* fails after abandoning the project's active sessions and before the new
\* session is inserted, the abandonment is rolled back.
C19_FailedStartRollsBack ==
    [][(last'.op = "session_start" /\ last'.res = "error")
       => sessions' = sessions]_vars

\* C20: with a current item titled "Use JWT for authentication", a
\* promote_knowledge call titled "Use JWT for auth" whose content differs
\* from every current item's finds a title similarity of at least 0.85 and
\* is reported as a title-match duplicate of that item.
C20_JwtTitlesMatch ==
    [][(/\ last'.op = "promote_knowledge"
        /\ ~last'.input.allowDuplicate
        /\ last'.input.title = JwtAuth
        /\ \E i \in Current(last'.arg) : knowledge[i].title = JwtAuthentication
        /\ \A i \in Current(last'.arg) :
              knowledge[i].contentHash # computeContentHash(last'.input.content))
       => /\ SimGeq(TitleSimilarity[JwtAuth][JwtAuthentication], TitleThreshold)
          /\ last'.res = "duplicate"
          /\ last'.out.dup[1].matchType = "title_match"
          /\ knowledge[last'.out.dup[1].existingKnowledge].title = JwtAuthentication
          /\ SimGeq(last'.out.dup[1].similarityScore, TitleThreshold)]_vars

(* --------------------------- content digests --------------------------- *)

\* Two contents of at most NormMaxLen characters
InitNormalize ==
    /\ migrationTable = MIGRATIONS
    /\ LET r == runMigrations(<<>>, {}, MIGRATIONS, 0)
       IN /\ versionLog = r.log
          /\ schema = r.schema
          /\ execLog = r.exec
          /\ dbOpen = (r.error = "none")
    /\ EmptyData
    /\ \E a, b \in SeqsUpTo({"A", "a", " ", "\t"}, NormMaxLen) :
          last = [op |-> "none", arg |-> <<a, b>>, res |-> "none", input |-> 0,
                  out |-> NoOut]

\* normalizeContent applied to both contents, and to its own result
NormalizeContent ==
    /\ last.op = "none"
    /\ last' = [last EXCEPT
                   !.op = "normalizeContent",
                   !.out = [normalized |-> <<normalizeContent(last.arg[1]),
                                             normalizeContent(last.arg[2])>>,
                            again |-> <<normalizeContent(normalizeContent(last.arg[1])),
                                        normalizeContent(normalizeContent(last.arg[2]))>>]]
    /\ UNCHANGED <<migrationTable, versionLog, schema, execLog, dbOpen>>
    /\ UNCHANGED dataVars

\* computeContentHash applied to both contents
ComputeContentHash ==
    /\ last.op = "none"
    /\ last' = [last EXCEPT
                   !.op = "computeContentHash",
                   !.out = [normalized |-> <<normalizeContent(last.arg[1]),
                                             normalizeContent(last.arg[2])>>,
                            hash |-> <<computeContentHash(last.arg[1]),
                                       computeContentHash(last.arg[2])>>]]
    /\ UNCHANGED <<migrationTable, versionLog, schema, execLog, dbOpen>>
    /\ UNCHANGED dataVars

NextNormalize == NormalizeContent \/ ComputeContentHash

SpecNormalize == InitNormalize /\ [][NextNormalize]_vars

\* C21: contents that normalize identically have equal digests, and
\* normalizing a normalized content changes nothing.
C21_NormalizeIdempotentDigestEqual ==
    /\ last.op = "computeContentHash"
          => (last.out.normalized[1] = last.out.normalized[2]
                 => last.out.hash[1] = last.out.hash[2])
    /\ last.op = "normalizeContent"
          => /\ last.out.again = last.out.normalized
             /\ \A n \in 1..2 :
                   LET text == last.out.normalized[n]
                   IN /\ \A i \in 1..Len(text) : text[i] \in {"a", " "}
                      /\ \A i \in 1..(Len(text) - 1) : ~(text[i] = " " /\ text[i + 1] = " ")
                      /\ Len(text) > 0 => text[1] # " " /\ text[Len(text)] # " "

\* Two different contents, in case and spacing, had the same digest
C21_Witness ==
    /\ last.op = "computeContentHash"
    /\ last.arg[1] = <<"A", " ", "a">>
    /\ last.arg[2] = <<"a", "\t", "A">>
    /\ last.out.hash[1] = last.out.hash[2]

(* ---------------------------- value counters --------------------------- *)

\* A call of one of the increment functions of the value metrics, for count
\* uses
ValueCalls ==
    \E projectPath \in Projects, count \in 1..ValueMaxCount :
       /\ dbOpen
       /\ valueCounters[projectPath].contextReuseCount
             + valueCounters[projectPath].knowledgeSurfacedCount
             + valueCounters[projectPath].decisionsRecalledCount
             + valueCounters[projectPath].patternsAppliedCount
             + valueCounters[projectPath].errorsPreventedCount + count <= ValueMaxTotal
       /\ \/ valueCounters' = incrementContextReuse(valueCounters, projectPath) /\ count = 1
          \/ valueCounters' = incrementKnowledgeSurfaced(valueCounters, projectPath, count)
          \/ valueCounters' = incrementDecisionRecall(valueCounters, projectPath, count)
          \/ valueCounters' = incrementPatternApplied(valueCounters, projectPath, count)
          \/ valueCounters' = incrementErrorPrevented(valueCounters, projectPath, count)
       /\ last' = [op |-> "increment", arg |-> projectPath, res |-> "ok",
                   input |-> count, out |-> NoOut]
       /\ UNCHANGED <<migrationTable, versionLog, schema, execLog, dbOpen, sessions,
                      events, valueSessions, agentSessions, knowledge, knowledgeUsage,
                      fileImportance>>

NextValue ==
    \/ ValueCalls
    \/ \E projectPath \in Projects : GetValueMetrics(projectPath)

SpecValue == Init /\ [][NextValue]_vars

\* The seconds the counters of a project account for
SecondsCounted(vc, projectPath) ==
    60 * vc[projectPath].knowledgeSurfacedCount
    + 180 * vc[projectPath].decisionsRecalledCount
    + 300 * vc[projectPath].patternsAppliedCount
    + 900 * vc[projectPath].errorsPreventedCount

\* C22: the estimated time saved of a project is always 60 x surfaced +
\* 180 x decisions recalled + 300 x patterns applied + 900 x errors
\* prevented, and no step lowers any of the four counters.
C22_TimeSavedIsWeightedSum ==
    /\ [](\A p \in Projects :
             valueCounters[p].estimatedTimeSavedSecs = SecondsCounted(valueCounters, p))
    /\ [][\A p \in Projects :
             /\ valueCounters'[p].knowledgeSurfacedCount >= valueCounters[p].knowledgeSurfacedCount
             /\ valueCounters'[p].decisionsRecalledCount >= valueCounters[p].decisionsRecalledCount
             /\ valueCounters'[p].patternsAppliedCount >= valueCounters[p].patternsAppliedCount
             /\ valueCounters'[p].errorsPreventedCount >= valueCounters[p].errorsPreventedCount]_vars

\* A decision recall, a pattern and a prevented error were counted: 1380 s
C22_Witness ==
    /\ valueCounters["/p1"].knowledgeSurfacedCount = 0
    /\ valueCounters["/p1"].decisionsRecalledCount = 1
    /\ valueCounters["/p1"].patternsAppliedCount = 1
    /\ valueCounters["/p1"].errorsPreventedCount = 1
    /\ valueCounters["/p1"].estimatedTimeSavedSecs = 1380

\* C23 as stated: every recall that returns promoted knowledge raises the
\* usage counter of each item it returns by exactly 1.
C23_RecallCountsOnce ==
    [][(last'.op = "recall" /\ Len(last'.out.knowledge) > 0)
       => /\ Len(knowledge') = Len(knowledge)
          /\ \A i \in 1..Len(knowledge) :
                IF i \in Range(last'.out.knowledge)
                THEN knowledge'[i] = [knowledge[i] EXCEPT !.usageCount = @ + 1]
                ELSE knowledge'[i] = knowledge[i]]_vars

\* C23: a recall that returns promoted knowledge while the project has an
\* active session raises the usage counter of each item it returns by
\* exactly 1 and writes one usage row per item; without an active session it
\* changes no counter and writes no usage row.
C23_RecallCountsOnceInActiveSession ==
    [][(last'.op = "recall" /\ Len(last'.out.knowledge) > 0)
       => /\ Len(knowledge') = Len(knowledge)
          /\ \A m, n \in 1..Len(last'.out.knowledge) :
                last'.out.knowledge[m] = last'.out.knowledge[n] => m = n
          /\ IF getActiveSession(sessions, last'.arg) # {}
             THEN /\ \A i \in 1..Len(knowledge) :
                        IF i \in Range(last'.out.knowledge)
                        THEN knowledge'[i] = [knowledge[i] EXCEPT !.usageCount = @ + 1]
                        ELSE knowledge'[i] = knowledge[i]
                  /\ Len(knowledgeUsage') = Len(knowledgeUsage) + Len(last'.out.knowledge)
             ELSE /\ knowledge' = knowledge
                  /\ knowledgeUsage' = knowledgeUsage]_vars

\* A recall in an active session returned an item that had not been
\* surfaced: its one use is the recall
C23_Witness ==
    /\ last.op = "recall"
    /\ getActiveSession(sessions, last.arg) # {}
    /\ \E i \in Range(last.out.knowledge) :
          /\ knowledge[i].usageCount = 1
          /\ \E u \in 1..Len(knowledgeUsage) :
                /\ knowledgeUsage[u].knowledgeId = i
                /\ knowledgeUsage[u].usageType = "recalled"

(* ------------------------ listing recent sessions ---------------------- *)

\* getRecentSessions(db, projectPath, limit, branch) on the sessions the
\* tools have written
GetRecentSessionsCalls ==
    \E projectPath \in Projects, limit \in 1..RecentMaxSessions, branch \in {NoText, "main"} :
       /\ dbOpen
       /\ \E rows \in getRecentSessions(sessions, projectPath, limit, branch) :
             last' = [op |-> "getRecentSessions", arg |-> projectPath, res |-> "ok",
                      input |-> [limit |-> limit, branch |-> branch],
                      out |-> [NoOut EXCEPT !.recent = rows]]
       /\ UNCHANGED <<migrationTable, versionLog, schema, execLog, dbOpen>>
       /\ UNCHANGED dataVars

\* session_start and session_end on two projects, and the listing
NextRecent ==
    \/ StartCalls(Projects, RecentMaxSessions, Recent, {"none"})
    \/ EndCalls(RecentMaxSessions)
    \/ GetRecentSessionsCalls

SpecRecent == Init /\ [][NextRecent]_vars

\* The completed sessions of a project
CompletedOf(projectPath) ==
    {i \in 1..Len(sessions) :
        sessions[i].projectPath = projectPath /\ sessions[i].status = "completed"}

\* C24: getRecentSessions(P, limit) returns completed sessions of P only,
\* each once, latest start first; it returns all of them when there are at
\* most limit, and otherwise limit of them, none started before a completed
\* session of P that it leaves out.
C24_RecentSessionsLatestCompleted ==
    (last.op = "getRecentSessions" /\ last.input.branch = NoText)
       => LET rows == last.out.recent
              all == CompletedOf(last.arg)
          IN /\ Range(rows) \subseteq all
             /\ \A m, n \in 1..Len(rows) :
                   /\ rows[m] = rows[n] => m = n
                   /\ m < n => sessions[rows[m]].startedAt >= sessions[rows[n]].startedAt
             /\ Len(rows) = IF Cardinality(all) > last.input.limit
                            THEN last.input.limit ELSE Cardinality(all)
             /\ \A i \in all \ Range(rows), n \in 1..Len(rows) :
                   sessions[i].startedAt <= sessions[rows[n]].startedAt

\* Two completed sessions of the project with different start times, limit
\* 1: the later one was returned
C24_Witness ==
    /\ last.op = "getRecentSessions"
    /\ last.input = [limit |-> 1, branch |-> NoText]
    /\ Cardinality(CompletedOf(last.arg)) = 2
    /\ Len(last.out.recent) = 1
    /\ \E i \in CompletedOf(last.arg) :
          sessions[i].startedAt < sessions[last.out.recent[1]].startedAt

\* C25: session_end on an abandoned session reports not found / already
\* ended and changes nothing: the session stays abandoned, with the end
\* timestamp its abandonment gave it and no summary, and every active
\* session stays active.
C25_EndOfAbandonedIsRefused ==
    [][(/\ last'.op = "session_end"
        /\ last'.arg \in 1..Len(sessions)
        /\ sessions[last'.arg].status = "abandoned")
       => /\ last'.res = "not_found_or_ended"
          /\ Len(sessions') = Len(sessions)
          /\ sessions'[last'.arg].status = "abandoned"
          /\ sessions'[last'.arg].endedAt = sessions[last'.arg].endedAt
          /\ sessions'[last'.arg].endedAt # NoTime
          /\ sessions'[last'.arg].summary = NoText
          /\ sessions'[last'.arg].gitCommitEnd = NoText
          /\ \A i \in 1..Len(sessions) :
                sessions[i].status = "active" => sessions'[i] = sessions[i]]_vars

\* session_end, at a later clock reading and with a summary's worth of
\* arguments, was refused for a session that the start of the project's
\* active session had abandoned
C25_Witness ==
    /\ last.op = "session_end"
    /\ last.res = "not_found_or_ended"
    /\ last.arg \in 1..Len(sessions)
    /\ sessions[last.arg].status = "abandoned"
    /\ sessions[last.arg].endedAt < last.input
    /\ sessions[last.arg].summary = NoText
    /\ \E i \in (last.arg + 1)..Len(sessions) :
          /\ sessions[i].projectPath = sessions[last.arg].projectPath
          /\ sessions[i].status = "active"
          /\ sessions[i].startedAt = sessions[last.arg].endedAt

(* --------------------------- duplicate search -------------------------- *)

Blank == <<" ", "\t">>

\* findDuplicates(db, projectPath, title, content) on the table
FindDuplicatesCalls ==
    \E q \in {[projectPath |-> "/p1", title |-> UseJwt, content |-> ContentAb],
             [projectPath |-> "/p1", title |-> UseJwt, content |-> ContentC],
             [projectPath |-> "/p1", title |-> <<>>, content |-> ContentAb],
             [projectPath |-> "/p2", title |-> Other, content |-> ContentAb]} :
       /\ dbOpen
       /\ \E duplicates \in findDuplicates(knowledge, q.projectPath, q.title, q.content) :
             last' = [op |-> "findDuplicates", arg |-> q.projectPath, res |-> "ok",
                      input |-> [title |-> q.title, content |-> q.content],
                      out |-> [NoOut EXCEPT !.dup = duplicates]]
       /\ UNCHANGED <<migrationTable, versionLog, schema, execLog, dbOpen>>
       /\ UNCHANGED dataVars

\* promote_knowledge calls with allowDuplicate set, which skip the duplicate
\* search
PromoteAllowedCalls(requests, maxItems) ==
    \E r \in requests, supersedes \in 0..Len(knowledge), t \in ClockReadings :
        /\ Len(knowledge) < maxItems
        /\ PromoteKnowledge(r.projectPath, r.title, r.content, "decision", 0,
                            TRUE, supersedes, t, {})

\* Items of two projects written with the override, some superseding
\* others, and the duplicate search
NextDuplicates ==
    \/ PromoteAllowedCalls(
          {[projectPath |-> "/p1", title |-> UseJwt, content |-> ContentAb],
           [projectPath |-> "/p1", title |-> UseJws, content |-> ContentAbSpaced],
           [projectPath |-> "/p1", title |-> UseJwtSpaced, content |-> ContentAb],
           [projectPath |-> "/p1", title |-> Blank, content |-> ContentC],
           [projectPath |-> "/p2", title |-> UseJwt, content |-> ContentC]},
          DupMaxItems)
    \/ FindDuplicatesCalls

SpecDuplicates == Init /\ [][NextDuplicates]_vars

\* C26: when a current item of the project has the digest of the content
\* searched for, findDuplicates returns one candidate only, an item of that
\* digest with match type exact and similarity 1.0, whatever the titles of
\* the items and however many items have the digest.
C26_ExactMatchIsTheOnlyCandidate ==
    (/\ last.op = "findDuplicates"
     /\ \E i \in Current(last.arg) :
           NormalText[knowledge[i].content] = NormalText[last.input.content])
       => /\ Len(last.out.dup) = 1
          /\ last.out.dup[1].matchType = "exact_hash"
          /\ last.out.dup[1].similarityScore.num = last.out.dup[1].similarityScore.den
          /\ last.out.dup[1].existingKnowledge \in Current(last.arg)
          /\ NormalText[knowledge[last.out.dup[1].existingKnowledge].content]
                = NormalText[last.input.content]

\* Two current items of the project had the digest searched for, and the
\* title of the one not returned was within the threshold too
C26_Witness ==
    /\ last.op = "findDuplicates"
    /\ Len(last.out.dup) = 1
    /\ last.out.dup[1].matchType = "exact_hash"
    /\ \E i \in Current(last.arg) :
          /\ i # last.out.dup[1].existingKnowledge
          /\ NormalText[knowledge[i].content] = NormalText[last.input.content]
          /\ knowledge[i].title = UseJws
          /\ last.input.title = UseJwt

\* The text each title normalizes to, written out by hand
NormalTitle ==
    [title \in {UseJwt, UseJws, UseJwtSpaced, Blank, Other, <<>>} |->
        IF title \in {UseJwt, UseJwtSpaced} THEN <<"u", "s", "e", " ", "j", "w", "t">>
        ELSE IF title = UseJws THEN <<"u", "s", "e", " ", "j", "w", "s">>
        ELSE IF title = Other THEN <<"n", "o">>
        ELSE <<>>]

\* 1 - editDistance / max(len) of two of these titles as a fraction, the
\* distances counted by hand: "use jwt" and "use jws" are one substitution
\* apart, every other two different texts share no aligned character
ExpectedSimilarity(title1, title2) ==
    LET n1 == NormalTitle[title1]
        n2 == NormalTitle[title2]
        maxLen == IF Len(n1) >= Len(n2) THEN Len(n1) ELSE Len(n2)
        distance == IF n1 = n2 THEN 0
                    ELSE IF Len(n1) = 7 /\ Len(n2) = 7 THEN 1
                    ELSE maxLen
    IN IF maxLen = 0 THEN [num |-> 1, den |-> 1]
       ELSE [num |-> maxLen - distance, den |-> maxLen]

\* C27: when no current item of the project has the digest searched for,
\* findDuplicates returns exactly the current items of that project whose
\* title similarity, 1 - editDistance / max(len) on the normalized titles
\* (1.0 when both are empty), is at least 0.85, each once, with match type
\* title and that similarity, highest similarity first.
C27_TitleMatchesAboveThreshold ==
    (/\ last.op = "findDuplicates"
     /\ \A i \in Current(last.arg) :
           NormalText[knowledge[i].content] # NormalText[last.input.content])
       => LET dup == last.out.dup
              expected(i) == ExpectedSimilarity(last.input.title, knowledge[i].title)
          IN /\ {dup[n].existingKnowledge : n \in 1..Len(dup)}
                   = {i \in Current(last.arg) :
                         100 * expected(i).num >= 85 * expected(i).den}
             /\ \A n \in 1..Len(dup) :
                   /\ dup[n].matchType = "title_match"
                   /\ dup[n].similarityScore.num * expected(dup[n].existingKnowledge).den
                         = expected(dup[n].existingKnowledge).num * dup[n].similarityScore.den
             /\ \A m, n \in 1..Len(dup) :
                   /\ dup[m].existingKnowledge = dup[n].existingKnowledge => m = n
                   /\ m < n => dup[m].similarityScore.num * dup[n].similarityScore.den
                                  >= dup[n].similarityScore.num * dup[m].similarityScore.den

\* Two title matches came back, the later item of the table first because
\* its title is the closer one
C27_Witness ==
    /\ last.op = "findDuplicates"
    /\ Len(last.out.dup) = 2
    /\ last.out.dup[1].matchType = "title_match"
    /\ last.out.dup[1].existingKnowledge > last.out.dup[2].existingKnowledge
    /\ last.out.dup[1].similarityScore.num * last.out.dup[2].similarityScore.den
          > last.out.dup[2].similarityScore.num * last.out.dup[1].similarityScore.den

(* ----------------------------- supersession ---------------------------- *)

\* markSuperseded(db, oldKnowledgeId, newKnowledgeId) on two items of the table
MarkSupersededCalls ==
    \E oldKnowledgeId \in 1..Len(knowledge), newKnowledgeId \in 1..Len(knowledge) :
       /\ dbOpen
       /\ knowledge' = markSuperseded(knowledge, oldKnowledgeId, newKnowledgeId)
       /\ last' = [op |-> "markSuperseded", arg |-> oldKnowledgeId, res |-> "ok",
                   input |-> newKnowledgeId, out |-> NoOut]
       /\ UNCHANGED <<migrationTable, versionLog, schema, execLog, dbOpen, sessions,
                      events, valueSessions, agentSessions, knowledgeUsage,
                      valueCounters, fileImportance>>

\* One item promoted again and again and surfaced by a session_start, then
\* superseded
NextSupersede ==
    \/ StartCalls(OneProject, SupersedeMaxSessions, Recent, {"none"})
    \/ PromoteAllowedCalls({[projectPath |-> "/p1", title |-> UseJwt,
                            content |-> ContentAb]}, SupersedeMaxItems)
    \/ MarkSupersededCalls

SpecSupersede == Init /\ [][NextSupersede]_vars

\* C28: markSuperseded(old, new) sets the superseded-by field of item old
\* to new and nothing else: every other item is as it was (an item
\* superseded by old still refers to old), no usage counter and no usage
\* row changes.  This holds whatever the state of old and new, so an item
\* that superseded another can be superseded in turn.  promote_knowledge
\* with supersedes does the same after writing its item.
C28_SupersessionTouchesOneField ==
    [][/\ last'.op = "markSuperseded"
          => /\ Len(knowledge') = Len(knowledge)
             /\ knowledge'[last'.arg] =
                   [knowledge[last'.arg] EXCEPT !.supersededBy = last'.input]
             /\ \A i \in 1..Len(knowledge) :
                   /\ i # last'.arg => knowledge'[i] = knowledge[i]
                   /\ knowledge'[i].usageCount = knowledge[i].usageCount
             /\ knowledgeUsage' = knowledgeUsage
       /\ (last'.op = "promote_knowledge" /\ last'.res = "ok"
           /\ last'.input.supersedes # 0)
          => /\ Len(knowledge') = Len(knowledge) + 1
             /\ knowledge'[last'.input.supersedes] =
                   [knowledge[last'.input.supersedes] EXCEPT
                       !.supersededBy = Len(knowledge')]
             /\ \A i \in 1..Len(knowledge) :
                   i # last'.input.supersedes => knowledge'[i] = knowledge[i]
             /\ knowledgeUsage' = knowledgeUsage]_vars

\* The item that superseded a used item was superseded in turn, and the
\* first item still refers to it
C28_Witness ==
    /\ last.op = "markSuperseded"
    /\ last.arg # last.input
    /\ \E i \in 1..Len(knowledge) :
          /\ i # last.arg
          /\ knowledge[i].supersededBy = last.arg
          /\ knowledge[i].usageCount > 0
    /\ knowledgeUsage # <<>>

(* ------------------------------- weights ------------------------------- *)

\* The branch of an item (NoText: undefined), the caller's branch and an age
\* in hours, Date.now() - createdAt, around the limits of 1, 7 and 30 days
InitWeights ==
    /\ migrationTable = MIGRATIONS
    /\ LET r == runMigrations(<<>>, {}, MIGRATIONS, 0)
       IN /\ versionLog = r.log
          /\ schema = r.schema
          /\ execLog = r.exec
          /\ dbOpen = (r.error = "none")
    /\ EmptyData
    /\ \E itemBranch \in {NoText, "", "main", "master", "dev", "feature-x"},
          currentBranch \in {"main", "master", "dev", "feature-x", "unknown"},
          hours \in {0, 1, 23, 24, 25, 47, 48, 167, 168, 169, 719, 720, 721, 1440} :
          last = [op |-> "none",
                  arg |-> [itemBranch |-> itemBranch, currentBranch |-> currentBranch,
                           hours |-> hours],
                  res |-> "none", input |-> 0, out |-> NoOut]

ComputeBranchWeight ==
    /\ last.op = "none"
    /\ last' = [last EXCEPT
                   !.op = "computeBranchWeight",
                   !.out = [weight |-> computeBranchWeight(last.arg.itemBranch,
                                                           last.arg.currentBranch)]]
    /\ UNCHANGED <<migrationTable, versionLog, schema, execLog, dbOpen>>
    /\ UNCHANGED dataVars

\* computeRecencyWeight of a createdAt that lies hours before Date.now():
\* daysSince is hours / 24
ComputeRecencyWeight ==
    /\ last.op = "none"
    /\ last' = [last EXCEPT
                   !.op = "computeRecencyWeight",
                   !.out = [weight |-> computeRecencyWeight(last.arg.hours \div 24)]]
    /\ UNCHANGED <<migrationTable, versionLog, schema, execLog, dbOpen>>
    /\ UNCHANGED dataVars

NextWeights == ComputeBranchWeight \/ ComputeRecencyWeight

SpecWeights == InitWeights /\ [][NextWeights]_vars

\* C29: the branch weight is 1.0 when the item's branch is the caller's
\* branch, trunk names included; 0.7 when it is main or master and not the
\* caller's branch; 0.3 for any other branch name; 0.5 when the item has no
\* branch (none recorded, or an empty name).
C29_BranchWeightCases ==
    last.op = "computeBranchWeight"
       => LET item == last.arg.itemBranch
              current == last.arg.currentBranch
              weight == last.out.weight
          IN /\ (item \notin {NoText, ""} /\ item = current) => weight = 10
             /\ (item # current /\ item \in {"main", "master"}) => weight = 7
             /\ (item # current /\ item \in {"dev", "feature-x"}) => weight = 3
             /\ item \in {NoText, ""} => weight = 5
             /\ weight \in {10, 7, 3, 5}

\* An item of main weighed for a caller on main
C29_Witness ==
    /\ last.op = "computeBranchWeight"
    /\ last.arg.itemBranch = "main"
    /\ last.arg.currentBranch = "main"
    /\ last.out.weight = 10

\* C30: the recency weight is 1.0 for an age under 1 day, 0.8 from 1 day
\* to under 7 days, 0.5 from 7 days to under 30 days, 0.3 from 30 days on.
C30_RecencyWeightSteps ==
    last.op = "computeRecencyWeight"
       => LET hours == last.arg.hours
              weight == last.out.weight
          IN /\ hours < 24 => weight = 10
             /\ (24 <= hours /\ hours < 7 * 24) => weight = 8
             /\ (7 * 24 <= hours /\ hours < 30 * 24) => weight = 5
             /\ 30 * 24 <= hours => weight = 3

\* An item exactly 7 days old weighed 0.5
C30_Witness ==
    /\ last.op = "computeRecencyWeight"
    /\ last.arg.hours = 168
    /\ last.out.weight = 5

(* --------------------------- session metrics --------------------------- *)

\* computeMetrics with the rows of the file events counted, not their paths
computeMetricsCountingRows(ss, es, sessionId, now) ==
    IF ~hasSession(ss, sessionId) THEN [defined |-> FALSE]
    ELSE LET mine == {k \in 1..Len(es) : es[k].sessionId = sessionId}
             countByCategory(cat) == Cardinality({k \in mine : es[k].category = cat})
             countByType(t) == Cardinality({k \in mine : es[k].eventType = t})
         IN [defined |-> TRUE,
             durationSecs |-> (IF ss[sessionId].endedAt # NoTime
                               THEN ss[sessionId].endedAt ELSE now)
                              - ss[sessionId].startedAt,
             eventsTotal |-> Cardinality(mine),
             eventsByCategory |->
                 [cat \in {"read", "search", "edit", "execute", "agent", "other"} |->
                     countByCategory(cat)],
             filesRead |-> countByType("file_read"),
             filesModified |-> countByType("file_write") + countByType("file_edit"),
             decisionsRecorded |-> countByType("decision"),
             patternsDiscovered |-> countByType("pattern"),
             errorsResolved |-> countByType("error_resolved")]

\* computeMetrics(db, sessionId), Date.now() reading now; defined = FALSE:
\* undefined (no such session).  eventsTotal is the sum of the counts of the
\* GROUP BY category rows, which is the number of the session's events;
\* COUNT(DISTINCT json_extract(detail_json, '$.path')) counts the paths.
computeMetrics(ss, es, sessionId, now) ==
    IF ~hasSession(ss, sessionId) THEN [defined |-> FALSE]
    ELSE LET mine == {k \in 1..Len(es) : es[k].sessionId = sessionId}
             countByCategory(cat) == Cardinality({k \in mine : es[k].category = cat})
             countByType(t) == Cardinality({k \in mine : es[k].eventType = t})
         IN [defined |-> TRUE,
             durationSecs |-> (IF ss[sessionId].endedAt # NoTime
                               THEN ss[sessionId].endedAt ELSE now)
                              - ss[sessionId].startedAt,
             eventsTotal |-> Cardinality(mine),
             eventsByCategory |->
                 [cat \in {"read", "search", "edit", "execute", "agent", "other"} |->
                     countByCategory(cat)],
             filesRead |-> Cardinality({es[k].detail.path :
                               k \in {j \in mine : es[j].eventType = "file_read"}}),
             filesModified |-> Cardinality({es[k].detail.path :
                               k \in {j \in mine :
                                         es[j].eventType \in {"file_write", "file_edit"}}}),
             decisionsRecorded |-> countByType("decision"),
             patternsDiscovered |-> countByType("pattern"),
             errorsResolved |-> countByType("error_resolved")]

\* computeMetrics on a stored session or on an id no session has
ComputeMetricsCalls ==
    \E sessionId \in SessionIds(MetricsMaxSessions), t \in ClockReadings :
       /\ dbOpen
       /\ last' = [op |-> "computeMetrics", arg |-> sessionId, res |-> "ok",
                   input |-> t,
                   out |-> computeMetrics(sessions, events, sessionId, t)]
       /\ UNCHANGED <<migrationTable, versionLog, schema, execLog, dbOpen>>
       /\ UNCHANGED dataVars

\* File events on two paths and a decision, recorded in the sessions of one
\* project, and the metrics
NextMetrics ==
    \/ StartCalls(OneProject, MetricsMaxSessions, Recent, {"none"})
    \/ EventCalls(MetricsMaxSessions, MetricsMaxEvents, {"decision"},
                  [type : {"file_op"}, operation : {"read", "edit"},
                   path : {"/a.ts", "/b.ts"}]
                  \cup {[type |-> "file_op", operation |-> "write", path |-> "/a.ts"],
                        [type |-> "decision", operation |-> "-", path |-> "-"]})
    \/ ComputeMetricsCalls

SpecMetrics == Init /\ [][NextMetrics]_vars

\* The events stored for a session whose detail is a file operation of
\* one of the given kinds
FileOps(sessionId, operations) ==
    {k \in 1..Len(events) :
        /\ events[k].sessionId = sessionId
        /\ events[k].detail.type = "file_op"
        /\ events[k].detail.operation \in operations}

\* C31: computeMetrics of an existing session returns eventsTotal equal to
\* the number of events stored for it and to the sum of its six category
\* counts, filesRead equal to the number of distinct paths of its file
\* reads, filesModified equal to the number of distinct paths of its file
\* writes and edits; with no events all counts are zero and a result is
\* returned.
C31_MetricsCountEventsAndPaths ==
    (last.op = "computeMetrics" /\ last.arg \in 1..Len(sessions))
       => LET m == last.out
              stored == {k \in 1..Len(events) : events[k].sessionId = last.arg}
          IN /\ m.defined
             /\ m.eventsTotal = Cardinality(stored)
             /\ m.eventsTotal = m.eventsByCategory["read"] + m.eventsByCategory["search"]
                                + m.eventsByCategory["edit"] + m.eventsByCategory["execute"]
                                + m.eventsByCategory["agent"] + m.eventsByCategory["other"]
             /\ m.filesRead =
                   Cardinality({events[k].detail.path : k \in FileOps(last.arg, {"read"})})
             /\ m.filesModified =
                   Cardinality({events[k].detail.path :
                                   k \in FileOps(last.arg, {"write", "edit"})})
             /\ stored = {}
                   => /\ m.eventsTotal = 0
                      /\ m.filesRead = 0
                      /\ m.filesModified = 0
                      /\ m.decisionsRecorded = 0
                      /\ m.patternsDiscovered = 0
                      /\ m.errorsResolved = 0

\* Two file events of a session on one path: one file
C31_Witness ==
    /\ last.op = "computeMetrics"
    /\ last.arg \in 1..Len(sessions)
    /\ last.out.eventsTotal = 2
    /\ \/ last.out.filesRead = 1 /\ Cardinality(FileOps(last.arg, {"read"})) = 2
       \/ last.out.filesModified = 1 /\ Cardinality(FileOps(last.arg, {"write", "edit"})) = 2

(* --------------------------- file importance --------------------------- *)

\* The importance score with an edit weighing as much as a read
computeImportanceScoreUnweighted(readCount, editCount, daysSinceAccess) ==
    LET recencyFactor == CASE daysSinceAccess = 0 -> 1000000
                           [] daysSinceAccess = 1 -> 905724
                           [] daysSinceAccess = 2 -> 820335
                           [] daysSinceAccess = 7 -> 500000
                           [] daysSinceAccess = 14 -> 250000
                           [] daysSinceAccess = 30 -> 51271
                           [] daysSinceAccess = 60 -> 2629
    IN ((readCount + editCount) * recencyFactor + 500) \div 1000

\* computeImportanceScore: (readCount + editCount * 3) * 0.5 ^ (days / 7),
\* rounded to thousandths.  recencyFactor is 0.5 ^ (days / 7) in millionths,
\* for the ages the clock readings of a call can give a stored timestamp.
computeImportanceScore(readCount, editCount, daysSinceAccess) ==
    LET recencyFactor == CASE daysSinceAccess = 0 -> 1000000
                           [] daysSinceAccess = 1 -> 905724
                           [] daysSinceAccess = 2 -> 820335
                           [] daysSinceAccess = 7 -> 500000
                           [] daysSinceAccess = 14 -> 250000
                           [] daysSinceAccess = 30 -> 51271
                           [] daysSinceAccess = 60 -> 2629
    IN ((readCount + editCount * 3) * recencyFactor + 500) \div 1000

\* upsertFileAccess: the table after the INSERT ... ON CONFLICT DO UPDATE.
\* The score is computed for the timestamp now the call has just taken, the
\* milliseconds between the two clock readings being far below a thousandth.
upsertFileAccess(fi, projectPath, filePath, operation, now) ==
    LET existing == {r \in fi : r.projectPath = projectPath /\ r.filePath = filePath}
        readCount == (IF existing = {} THEN 0 ELSE (CHOOSE r \in existing : TRUE).readCount)
                     + (IF operation = "read" THEN 1 ELSE 0)
        editCount == (IF existing = {} THEN 0 ELSE (CHOOSE r \in existing : TRUE).editCount)
                     + (IF operation = "edit" THEN 1 ELSE 0)
    IN (fi \ existing)
       \cup {[projectPath |-> projectPath, filePath |-> filePath,
              readCount |-> readCount, editCount |-> editCount,
              lastAccessedAt |-> now,
              importanceScore |-> computeImportanceScore(readCount, editCount, 0)]}

\* refreshImportanceScores: every row of the project gets the score of its
\* counts at its present age, unless that differs from the stored score by
\* 0.01 or less; updated is the number of rows written.  days[stamp]: the
\* age in days of a timestamp when the call reads the clock.
refreshImportanceScores(fi, projectPath, days) ==
    LET newScore(r) == computeImportanceScore(r.readCount, r.editCount,
                                              days[r.lastAccessedAt])
        changed == {r \in fi : /\ r.projectPath = projectPath
                               /\ \/ newScore(r) - r.importanceScore > 10
                                  \/ r.importanceScore - newScore(r) > 10}
    IN [table |-> (fi \ changed)
                  \cup {[r EXCEPT !.importanceScore = newScore(r)] : r \in changed},
        updated |-> Cardinality(changed)]

\* The accesses the table has counted
RECURSIVE AccessesCounted(_)
AccessesCounted(fi) ==
    IF fi = {} THEN 0
    ELSE LET r == CHOOSE x \in fi : TRUE
         IN r.readCount + r.editCount + AccessesCounted(fi \ {r})

\* upsertFileAccess on the files of two projects, while the table has
\* counted fewer than ImportanceMaxAccesses accesses
UpsertFileAccessCalls ==
    \E access \in {<<"/p1", "a.ts", "read">>, <<"/p1", "a.ts", "edit">>,
                    <<"/p1", "b.ts", "read">>, <<"/p2", "a.ts", "edit">>},
       t \in ClockReadings :
    \E key \in {<<access[1], access[2]>>}, operation \in {access[3]} :
       /\ dbOpen
       /\ AccessesCounted(fileImportance) < ImportanceMaxAccesses
       /\ fileImportance' = upsertFileAccess(fileImportance, key[1], key[2], operation, t)
       /\ last' = [op |-> "upsertFileAccess", arg |-> key, res |-> "ok",
                   input |-> operation, out |-> NoOut]
       /\ UNCHANGED <<migrationTable, versionLog, schema, execLog, dbOpen, sessions,
                      events, valueSessions, agentSessions, knowledge, knowledgeUsage,
                      valueCounters>>

\* refreshImportanceScores(db, projectPath), the clock readings lying
\* tickDays days apart
RefreshImportanceScoresCalls ==
    \E projectPath \in Projects, t \in ClockReadings, tickDays \in TickDays :
    \E refreshed \in {refreshImportanceScores(fileImportance, projectPath,
                                              Ages(t, tickDays))} :
       /\ dbOpen
       /\ fileImportance' = refreshed.table
       /\ last' = [op |-> "refreshImportanceScores", arg |-> projectPath, res |-> "ok",
                   input |-> 0,
                   out |-> [NoOut EXCEPT !.count = refreshed.updated]]
       /\ UNCHANGED <<migrationTable, versionLog, schema, execLog, dbOpen, sessions,
                      events, valueSessions, agentSessions, knowledge, knowledgeUsage,
                      valueCounters>>

NextImportance ==
    \/ UpsertFileAccessCalls
    \/ RefreshImportanceScoresCalls

SpecImportance == Init /\ [][NextImportance]_vars

\* The row of file_importance for a key, or the counts of a file never accessed
RowOf(fi, key) ==
    IF \E r \in fi : r.projectPath = key[1] /\ r.filePath = key[2]
    THEN CHOOSE r \in fi : r.projectPath = key[1] /\ r.filePath = key[2]
    ELSE [projectPath |-> key[1], filePath |-> key[2], readCount |-> 0,
          editCount |-> 0, lastAccessedAt |-> NoTime, importanceScore |-> 0]

\* C32: an upsert adds one access of its kind to the counts of its
\* (project, path), so the counts are the numbers of reads and edits
\* recorded, and leaves the file with the score readCount + 3 x editCount
\* (in thousandths); the rows of other files are untouched.
C32_ScoreIsReadsPlusThreeEdits ==
    [][last'.op = "upsertFileAccess"
       => LET before == RowOf(fileImportance, last'.arg)
              after == RowOf(fileImportance', last'.arg)
          IN /\ after \in fileImportance'
             /\ after.readCount = before.readCount + (IF last'.input = "read" THEN 1 ELSE 0)
             /\ after.editCount = before.editCount + (IF last'.input = "edit" THEN 1 ELSE 0)
             /\ after.importanceScore = 1000 * (after.readCount + 3 * after.editCount)
             /\ fileImportance' \ {after} = fileImportance \ {before}
             /\ Cardinality({r \in fileImportance' :
                                r.projectPath = last'.arg[1] /\ r.filePath = last'.arg[2]}) = 1]_vars

\* A file read twice and edited three times scores 11
C32_Witness ==
    /\ last.op = "upsertFileAccess"
    /\ RowOf(fileImportance, last.arg).readCount = 2
    /\ RowOf(fileImportance, last.arg).editCount = 3
    /\ RowOf(fileImportance, last.arg).importanceScore = 11000

\* C33: a session_start for project P, successful or not, leaves every
\* session of every other project exactly as it was; in particular their
\* active sessions stay active.
C33_StartLeavesOtherProjects ==
    [][last'.op = "session_start"
       => /\ Len(sessions') >= Len(sessions)
          /\ \A i \in 1..Len(sessions) :
                sessions[i].projectPath # last'.arg => sessions'[i] = sessions[i]]_vars

\* A session_start succeeded for one project while a session of the other
\* project, started before it, is active
C33_Witness ==
    /\ last.op = "session_start"
    /\ last.res = "ok"
    /\ \E i \in 1..Len(sessions) :
          /\ sessions[i].projectPath # last.arg
          /\ sessions[i].status = "active"
          /\ i < Len(sessions)
          /\ sessions[Len(sessions)].projectPath = last.arg

(* ------------------------- life of a knowledge item -------------------- *)

\* A sync that also rewrites the title with the content
markKnowledgeSyncedRetitling(kn, knowledgeId, syncedAt) ==
    [i \in 1..Len(kn) |->
        IF i = knowledgeId
        THEN [kn[i] EXCEPT !.syncedAt = syncedAt, !.title = kn[i].content]
        ELSE kn[i]]

\* markKnowledgeSynced: UPDATE promoted_knowledge SET synced_at = ?,
\* synapse_knowledge_id = ? WHERE knowledge_id = ? (the remote id is stored
\* with the timestamp and read by nothing; it is left out)
markKnowledgeSynced(kn, knowledgeId, syncedAt) ==
    [i \in 1..Len(kn) |->
        IF i = knowledgeId THEN [kn[i] EXCEPT !.syncedAt = syncedAt] ELSE kn[i]]

\* markKnowledgeSynced on an item that getUnsyncedKnowledge lists
MarkKnowledgeSyncedCalls ==
    \E projectPath \in OneProject, t \in ClockReadings :
    \E unsynced \in getUnsyncedKnowledge(knowledge, projectPath) :
    \E n \in 1..Len(unsynced) :
       /\ dbOpen
       /\ knowledge' = markKnowledgeSynced(knowledge, unsynced[n], t)
       /\ last' = [op |-> "markKnowledgeSynced", arg |-> unsynced[n], res |-> "ok",
                   input |-> t, out |-> NoOut]
       /\ UNCHANGED <<migrationTable, versionLog, schema, execLog, dbOpen, sessions,
                      events, valueSessions, agentSessions, knowledgeUsage,
                      valueCounters, fileImportance>>

\* Every operation that writes promoted_knowledge: promotion (with and
\* without supersedes), surfacing by session_start, sync
NextSync ==
    \/ StartCalls(OneProject, SupersedeMaxSessions, Recent, {"none"})
    \/ PromoteAllowedCalls({[projectPath |-> "/p1", title |-> UseJwt,
                            content |-> ContentAb],
                           [projectPath |-> "/p2", title |-> UseJwt,
                            content |-> ContentAb]}, SupersedeMaxItems)
    \/ MarkKnowledgeSyncedCalls

SpecSync == Init /\ [][NextSync]_vars

\* C34: no step deletes a knowledge item or changes its title, content,
\* knowledge type, project path, branch, content fingerprint (or creation
\* time and source session); a step changes at most its sync timestamp, its
\* superseded-by reference and its usage counter, which only grows.
C34_KnowledgeItemsAreNotEdited ==
    [][/\ Len(knowledge') >= Len(knowledge)
       /\ \A i \in 1..Len(knowledge) :
             /\ knowledge'[i] = [knowledge[i] EXCEPT
                                    !.syncedAt = knowledge'[i].syncedAt,
                                    !.supersededBy = knowledge'[i].supersededBy,
                                    !.usageCount = knowledge'[i].usageCount]
             /\ knowledge'[i].usageCount >= knowledge[i].usageCount]_vars

\* An item that has been surfaced, synced and superseded, with the title
\* and content it was promoted with
C34_Witness ==
    \E i \in 1..Len(knowledge) :
       /\ knowledge[i].usageCount > 0
       /\ knowledge[i].syncedAt # NoTime
       /\ knowledge[i].supersededBy # 0
       /\ knowledge[i].title = UseJwt
       /\ knowledge[i].content = ContentAb
       /\ knowledge[i].projectPath = "/p1"


\* ---------------------------------------------------------------------
\* C35: in every reachable state the total_sessions counter of a project's
\* value metrics equals the number of session rows of that project (every
\* session row is created by session_start, and none is ever deleted).
SessionsOfProject(projectPath) ==
    {i \in 1..Len(sessions) : sessions[i].projectPath = projectPath}

C35_SessionCounterCountsStarts ==
    \A p \in Projects : valueSessions[p] = Cardinality(SessionsOfProject(p))

(* ----------------------- promotion without override -------------------- *)

\* promote_knowledge never called with allowDuplicate, on two projects, with
\* and without supersedes
NextNoOverride ==
    PromoteCalls(PromoteRequests \cup SurfaceRequests
                    \cup {[projectPath |-> "/p2", title |-> UseJwt, content |-> ContentAb]},
                 {"decision"}, {0}, {FALSE}, KnowledgeMaxItems)

SpecNoOverride == Init /\ [][NextNoOverride]_vars

\* C36: while no promote_knowledge call sets allowDuplicate, any two
\* different non-superseded items of one project have different content
\* digests and a title similarity below 0.85.
C36_CurrentItemsAreDistinct ==
    \A p \in Projects : \A i, j \in Current(p) :
        i # j => /\ knowledge[i].contentHash # knowledge[j].contentHash
                 /\ ~SimGeq(TitleSimilarity[knowledge[i].title][knowledge[j].title],
                            TitleThreshold)

\* Two current items of one project stand side by side and a third
\* promotion for that project has just been refused as a duplicate
C36_Witness ==
    /\ Cardinality(Current("/p1")) = 2
    /\ last.op = "promote_knowledge"
    /\ last.arg = "/p1"
    /\ last.res = "duplicate"


(* --------------------- usage recording that fails --------------------- *)

\* session_start and recall on the promoted items of one project, where the
\* recording of a usage may fail between its INSERT and its UPDATE
NextUsage ==
    \/ StartCalls(OneProject, UsageMaxSessions, Recent, {"none", "recordKnowledgeUsage"})
    \/ PromoteAllowedCalls({[projectPath |-> "/p1", title |-> UseJwt,
                            content |-> ContentAb]}, UsageMaxItems)
    \/ RecallCalls(OneProject, {[query |-> <<"i", "R">>, eventType |-> "decision"]},
                   {0}, UsageMaxRecalled, Recent, BOOLEAN)

SpecUsage == Init /\ [][NextUsage]_vars

\* ---------------------------------------------------------------------
\* C37: the usage count of every item promote_knowledge created equals the
\* number of usage-history rows recorded for that item.
UsageRowsOf(knowledgeId) ==
    {n \in 1..Len(knowledgeUsage) : knowledgeUsage[n].knowledgeId = knowledgeId}

C37_UsageCountCountsHistory ==
    \A i \in 1..Len(knowledge) :
        knowledge[i].usageCount = Cardinality(UsageRowsOf(i))

\* ---------------------------------------------------------------------
\* C38: in every reachable state a session has an end timestamp exactly
\* when its status is not active, and only completed sessions carry a
\* summary or an end-commit reference.
C38_EndStampIffNotActive ==
    \A i \in 1..Len(sessions) :
        /\ sessions[i].status \in {"active", "completed", "abandoned"}
        /\ (sessions[i].endedAt # NoTime) <=> (sessions[i].status # "active")
        /\ (sessions[i].summary # NoText \/ sessions[i].gitCommitEnd # NoText)
              => sessions[i].status = "completed"

\* An abandoned session with its end timestamp and neither summary nor end
\* commit stands next to a completed session that carries a summary
C38_Witness ==
    \E i, j \in 1..Len(sessions) :
        /\ sessions[i].status = "abandoned"
        /\ sessions[i].endedAt # NoTime
        /\ sessions[i].summary = NoText
        /\ sessions[i].gitCommitEnd = NoText
        /\ sessions[j].status = "completed"
        /\ sessions[j].endedAt # NoTime
        /\ sessions[j].summary # NoText


\* ---------------------------------------------------------------------
\* C39: a promote_knowledge call for project P leaves every knowledge item
\* of every other project as it was, whatever its supersedes argument names.
C39_PromoteLeavesOtherProjects ==
    [][last'.op = "promote_knowledge"
       => \A i \in 1..Len(knowledge) :
              knowledge[i].projectPath # last'.arg => knowledge'[i] = knowledge[i]]_vars

====
